---- MODULE Spec2Model ----
(***************************************************************************)
(* Verification model of tm2py's transit assignment congestion core:       *)
(*   - TransitAssignmentClass._journey_levels, the journey-level builder   *)
(*   - TransitAssignment.run and the per-period assignment variants        *)
(*   - calc_adjusted_headway                                               *)
(*   - the generated calc_segment_cost functions (crowding, congestion)    *)
(*   - calc_total_offs, calc_offs_thru_segment, calc_extra_wait_time       *)
(*   - TransitAssignment._calc_segment_ccr_penalties                       *)
(*   - journeys the engine follows through the drive-access automata       *)
(* Level indices (next_journey_level) are 0-based as in the source; TLA+   *)
(* sequences are 1-based, so level i of the source is element i+1.         *)
(***************************************************************************)
EXTENDS Integers, Sequences, FiniteSets, TLC

VARIABLES
    \* ---- TransitAssignmentClass (journey-level builder) ----
    name,                \* self.name
    use_fares,           \* self._config.use_fares
    mode_types,          \* self._class_config.mode_types
    template_file,       \* <period>_ALLPEN_journey_levels.ems, "journey_levels"
    template_loaded,     \* whether the template file has been read
    journey_levels,      \* local: the loaded template
    new_journey_levels,  \* local: the list being built
    njl_bound,           \* whether the local new_journey_levels is bound
    artifact,            \* <period>_<name>_journey_levels.ems
    returned,            \* the value handed to the caller
    jpc,                 \* position inside _journey_levels
    \* ---- TransitAssignment.run ----
    iteration,           \* self.controller.iteration of the current run() call
    cfg_use_ccr,         \* self.config.use_ccr
    cfg_congested,       \* self.config.congested_transit_assignment
    run_use_ccr,         \* local use_ccr of run()
    congested_bound,     \* whether local congested_transit_assignment is bound
    period,              \* index of the time period being processed (1-based)
    rpc,                 \* position inside run / run_transit_assign
    engine,              \* "idle" | "running": an engine assignment call is active
    penalty,             \* "idle" | "running": _calc_segment_ccr_penalties is active
    assigned,            \* per period: engine assignment calls returned so far
    penalised,           \* per period: penalty recomputations completed so far
    variant,             \* per period: variant of the last assignment run
    demand_prepared,     \* "prepare transit demand" ran in this run() call
    class_idx,           \* extended assignment: classes assigned so far in the period
    add_volumes,         \* extended assignment: local add_volumes
    volumes_from,        \* per period: the (iteration, class) assignments whose
                         \* flows make up the segment volumes of the scenario
    \* ---- calc_adjusted_headway ----
    seg,                 \* the segment snapshot handed to the function
    hdwy_out,            \* the value returned
    fpc,                 \* "input" | "done"
    \* ---- calc_segment_cost (crowded / congested) ----
    cost_fn,             \* which generated function the engine calls
    cost_args,           \* transit_volume, capacity, segment.line and the
                         \* substituted time_period_duration, weights, use_fares
    line_bound,          \* whether the local line = segment.line has been read
    split,               \* seated_pax / standing_pax once computed
    blended_cost,        \* local crowded_cost before it is clipped, once computed
    cost_out,            \* the value returned or the exception raised
    cpc,                 \* position inside calc_segment_cost
    \* ---- calc_extra_wait_time ----
    eawt_args,           \* segment (number and line snapshot), segment_capacity,
                         \* mode_config, use_fares
    eawt_out,            \* the value returned or the exception raised
    epc,                 \* "call" | "done" | "error"
    \* ---- _calc_segment_ccr_penalties ----
    pass_use_fares,      \* self.config.use_fares
    network,             \* the in-memory network: lines with their segments
    scenario,            \* @eawt / @capacity_penalty saved in the scenario
    pass_out,            \* the exception raised by the pass, if any
    ppc,                 \* position inside _calc_segment_ccr_penalties
    \* ---- a journey the engine follows through a built automaton ----
    jlevel,              \* index of the journey level the journey is in
    used_transit,        \* a mode of the template has been taken
    walked_before_transit,  \* w or e was taken before any template mode
    drove_after_transit  \* D or the p / k mode was taken after a template mode

jl_vars == <<name, use_fares, mode_types, template_file, template_loaded,
             journey_levels, new_journey_levels, njl_bound, artifact,
             returned, jpc>>
run_vars == <<iteration, cfg_use_ccr, cfg_congested, run_use_ccr,
              congested_bound, period, rpc, engine, penalty, assigned,
              penalised, variant, demand_prepared, class_idx, add_volumes,
              volumes_from>>
fn_vars == <<seg, hdwy_out, fpc>>
cost_vars == <<cost_fn, cost_args, line_bound, split, blended_cost,
               cost_out, cpc>>
eawt_vars == <<eawt_args, eawt_out, epc>>
pass_vars == <<pass_use_fares, network, scenario, pass_out, ppc>>
journey_vars == <<jlevel, used_transit, walked_before_transit,
                  drove_after_transit>>
vars == <<jl_vars, run_vars, fn_vars, cost_vars, eawt_vars, pass_vars,
          journey_vars>>

(***************************************************************************)
(* Bounds of the model.                                                    *)
(***************************************************************************)
\* largest number of levels of the fares template
MaxLevels == 2
\* number of time periods (self.time_period_names)
NumPeriods == 2
\* number of transit classes (self.config.classes)
NumClasses == 2
\* last controller iteration modelled
MaxIteration == 1
\* largest segment volume / boardings / capacity drawn
MaxPax == 3

(***************************************************************************)
(* Program constants.  Headways are held in hundredths of a minute, so     *)
(* 999.98 is 99998; every other quantity is a whole number.                *)
(***************************************************************************)
\* max_headway = 999.98
max_headway == 99998

(***************************************************************************)
(* Configuration: transit.modes, the fare-mode mapping and the template.   *)
(***************************************************************************)
\* self._config.modes: mode_id, type, assign_type of every configured mode
ConfigModes ==
    << [mode_id |-> "w", type |-> "WALK",      assign_type |-> "AUX_TRANSIT"],
       [mode_id |-> "a", type |-> "ACCESS",    assign_type |-> "AUX_TRANSIT"],
       [mode_id |-> "e", type |-> "EGRESS",    assign_type |-> "AUX_TRANSIT"],
       [mode_id |-> "D", type |-> "DRIVE",     assign_type |-> "AUX_TRANSIT"],
       [mode_id |-> "p", type |-> "PNR_dummy", assign_type |-> "TRANSIT"],
       [mode_id |-> "k", type |-> "KNR_dummy", assign_type |-> "TRANSIT"],
       [mode_id |-> "b", type |-> "LOCAL",     assign_type |-> "TRANSIT"] >>

\* the mode_types lists a class configuration may carry
ModeTypeChoices ==
    { {"WALK", "ACCESS", "EGRESS", "LOCAL"},
      {"WALK", "EGRESS", "DRIVE", "PNR_dummy", "LOCAL"},
      {"WALK", "ACCESS", "DRIVE", "KNR_dummy", "LOCAL"} }

\* self._fare_modes[src_mode]: the generated fare mode ids of a source mode
\* (a defaultdict: a source mode without lines maps to the empty set)
FareModes(src_mode) ==
    CASE src_mode = "b" -> {"b", "x"}
      [] src_mode = "p" -> {"p"}
      [] src_mode = "k" -> {"k"}
      [] OTHER -> {}

\* the mode characters the template's transition rules are written for
TemplateModes == <<"b", "x">>

\* every mode character that can occur in a rule or in a class
AllModeChars == {"w", "a", "e", "D", "p", "k", "b", "x"}

ClassNames == {"PNR_TRN_WLK", "WLK_TRN_PNR", "KNR_TRN_WLK", "WLK_TRN_KNR",
               "WLK_TRN_WLK"}

Rule(m, n) == [mode |-> m, next_journey_level |-> n]

\* one level of the template: a rule per template mode, fare boarding cost
TemplateLevel(targets) ==
    [description |-> "tmpl",
     destinations_reachable |-> TRUE,
     transition_rules |->
         [k \in 1..Len(TemplateModes) |-> Rule(TemplateModes[k], targets[k])],
     waiting_time |-> "None",
     boarding_time |-> "None",
     boarding_cost |-> "tmpl"]

\* the templates of n levels whose rule targets lie in 0..n
Templates(n) ==
    { [i \in 1..n |-> TemplateLevel(t[i])] :
        t \in [1..n -> [1..Len(TemplateModes) -> 0..n]] }

\* the template files drawn: up to MaxLevels levels when fares are used;
\* without fares the file is never read and only the templates of at most
\* one level are drawn
TemplatesDrawn(fares) ==
    IF fares
    THEN UNION { Templates(n) : n \in 0..MaxLevels }
    ELSE Templates(0) \cup Templates(1)

(***************************************************************************)
(* TransitAssignmentClass._modes / _transit_modes                          *)
(***************************************************************************)
_get_used_mode_ids(modes) ==
    IF use_fares
    THEN UNION { IF modes[i].assign_type = "TRANSIT"
                 THEN FareModes(modes[i].mode_id)
                 ELSE {modes[i].mode_id} : i \in DOMAIN modes }
    ELSE { modes[i].mode_id : i \in DOMAIN modes }

_modes ==
    _get_used_mode_ids(
        SelectSeq(ConfigModes, LAMBDA m : m.type \in mode_types))

_transit_modes ==
    _get_used_mode_ids(
        SelectSeq(ConfigModes,
                  LAMBDA m : m.type \in mode_types /\ m.assign_type = "TRANSIT"))

\* the list `modes` of the no-fares branch, in configuration order
transit_mode_list ==
    LET ms == SelectSeq(ConfigModes,
                  LAMBDA m : m.type \in mode_types /\ m.assign_type = "TRANSIT")
    IN [i \in DOMAIN ms |-> ms[i].mode_id]

(***************************************************************************)
(* Helpers of the level construction                                       *)
(***************************************************************************)
\* for level in rules: level["next_journey_level"] = n
SetTargets(rules, n) ==
    [k \in DOMAIN rules |-> Rule(rules[k].mode, n)]

\* faulty variant of ShiftTargets: the targets move by the number of levels
\* inserted in front of the copies
ShiftTargetsByInserted(rules, d) ==
    [k \in DOMAIN rules |->
        Rule(rules[k].mode, rules[k].next_journey_level + 2 * d)]

\* for level in rules: level["next_journey_level"] += d
ShiftTargets(rules, d) ==
    [k \in DOMAIN rules |-> Rule(rules[k].mode, rules[k].next_journey_level + d)]

\* a level inserted by the builder: no overrides
NewLevel(desc, reach, rules) ==
    [description |-> desc,
     destinations_reachable |-> reach,
     transition_rules |-> rules,
     waiting_time |-> "None",
     boarding_time |-> "None",
     boarding_cost |-> "None"]

\* level["waiting_time"] = {...}; level["boarding_time"] = {...}
WithOverrides(level) ==
    [level EXCEPT !.waiting_time = "shared", !.boarding_time = "shared"]

\* if level["boarding_cost"]: ...["perception_factor"] = fare_perception
WithFarePerception(level) ==
    IF level.boarding_cost # "None"
    THEN [level EXCEPT !.boarding_cost = "fare_perception"]
    ELSE level

\* faulty variant of Finish: the slice of the overrides runs one level too
\* far
FinishOneTooFar(levels, lo, hi) ==
    [i \in DOMAIN levels |->
        WithFarePerception(
            IF lo <= i - 1 /\ i - 1 < hi + 1
            THEN WithOverrides(levels[i])
            ELSE levels[i])]

\* apply the overrides to the 0-based slice [lo : hi) and then the
\* fare-perception rewrite to every level
Finish(levels, lo, hi) ==
    [i \in DOMAIN levels |->
        WithFarePerception(
            IF lo <= i - 1 /\ i - 1 < hi
            THEN WithOverrides(levels[i])
            ELSE levels[i])]

(***************************************************************************)
(* The five fares-enabled variants and the no-fares automaton              *)
(***************************************************************************)
\* faulty variant of PNR_TRN_WLK_copied: the D rule keeps the journey in the
\* level it is in
PNR_TRN_WLK_copied_drive_loop(jl) ==
    LET n == Len(jl) IN
    [j \in 1..n |->
        [jl[j] EXCEPT !.transition_rules =
            ShiftTargets(jl[j].transition_rules, 1)
            \o << Rule("e", (j - 1) + 2),
                  Rule("D", (j - 1) + 2),
                  Rule("w", (j - 1) + 2),
                  Rule("p", n + 2) >>]]

\* self.name == "PNR_TRN_WLK": levels copied from the template (loop over i)
PNR_TRN_WLK_copied(jl) ==
    LET n == Len(jl) IN
    [j \in 1..n |->
        [jl[j] EXCEPT !.transition_rules =
            ShiftTargets(jl[j].transition_rules, 1)
            \o << Rule("e", (j - 1) + 2),
                  Rule("D", n + 2),
                  Rule("w", (j - 1) + 2),
                  Rule("p", n + 2) >>]]

\* faulty variant of PNR_TRN_WLK_drive_access: p skips the pnr level
PNR_TRN_WLK_drive_access_skip(jl) ==
    LET n == Len(jl) IN
    SetTargets(jl[1].transition_rules, n + 2)
    \o << Rule("e", n + 2), Rule("D", 0), Rule("w", n + 2), Rule("p", 2) >>

\* level 0: drive access
PNR_TRN_WLK_drive_access(jl) ==
    LET n == Len(jl) IN
    SetTargets(jl[1].transition_rules, n + 2)
    \o << Rule("e", n + 2), Rule("D", 0), Rule("w", n + 2), Rule("p", 1) >>

\* level 1: use transit
PNR_TRN_WLK_pnr(jl) ==
    LET n == Len(jl) IN
    SetTargets(jl[1].transition_rules, 2)
    \o << Rule("e", n + 2), Rule("D", n + 2), Rule("w", n + 2), Rule("p", 1) >>

\* faulty variant of PNR_TRN_WLK_prohibit: the trap index is taken from the
\* length of the list after the two insertions at the front have been counted
PNR_TRN_WLK_prohibit_late_len(jl) ==
    LET n == Len(jl) IN
    SetTargets(jl[1].transition_rules, n + 3)
    \o << Rule("e", n + 3), Rule("D", n + 3), Rule("w", n + 3),
          Rule("p", n + 3) >>

\* level len(new_journey_levels)+2: every mode is prohibited
PNR_TRN_WLK_prohibit(jl) ==
    LET n == Len(jl) IN
    SetTargets(jl[1].transition_rules, n + 2)
    \o << Rule("e", n + 2), Rule("D", n + 2), Rule("w", n + 2),
          Rule("p", n + 2) >>

\* the finished level list of PNR_TRN_WLK
PNR_TRN_WLK_levels(jl) ==
    LET levels ==
            << NewLevel("drive access", FALSE, PNR_TRN_WLK_drive_access(jl)),
               NewLevel("pnr", FALSE, PNR_TRN_WLK_pnr(jl)) >>
            \o PNR_TRN_WLK_copied(jl)
            \o << NewLevel("prohibit", FALSE, PNR_TRN_WLK_prohibit(jl)) >>
    IN Finish(levels, 2, Len(levels) - 1)

\* faulty variant of WLK_TRN_PNR_copied: destinations_reachable is left as
\* in the template
WLK_TRN_PNR_copied_reachable(jl) ==
    LET n == Len(jl) IN
    [j \in 1..n |->
        [jl[j] EXCEPT !.transition_rules =
            jl[j].transition_rules
            \o << Rule("a", n + 2),
                  Rule("D", n + 2),
                  Rule("w", (j - 1) + 1),
                  Rule("p", n + 1) >>]]

\* self.name == "WLK_TRN_PNR": levels copied from the template (loop over i)
WLK_TRN_PNR_copied(jl) ==
    LET n == Len(jl) IN
    [j \in 1..n |->
        [jl[j] EXCEPT !.destinations_reachable = FALSE,
                      !.transition_rules =
            jl[j].transition_rules
            \o << Rule("a", n + 2),
                  Rule("D", n + 2),
                  Rule("w", (j - 1) + 1),
                  Rule("p", n + 1) >>]]

\* level 0: walk access
WLK_TRN_PNR_walk_access(jl) ==
    LET n == Len(jl) IN
    SetTargets(jl[1].transition_rules, 1)
    \o << Rule("a", 0), Rule("D", n + 2), Rule("w", n + 2), Rule("p", n + 2) >>

\* faulty variant of WLK_TRN_PNR_drive_home: every rule stays on the
\* drive-home level
WLK_TRN_PNR_drive_home_sink(jl) ==
    LET n == Len(jl) IN
    SetTargets(jl[1].transition_rules, n + 1)
    \o << Rule("a", n + 1), Rule("D", n + 1), Rule("w", n + 1),
          Rule("p", n + 1) >>

\* level len(new_journey_levels)+1: drive home
WLK_TRN_PNR_drive_home(jl) ==
    LET n == Len(jl) IN
    SetTargets(jl[1].transition_rules, n + 2)
    \o << Rule("a", n + 2), Rule("D", n + 1), Rule("w", n + 2),
          Rule("p", n + 2) >>

\* faulty variant of WLK_TRN_PNR_prohibit: the p rule is left as in the
\* template-derived levels (to the drive-home level)
WLK_TRN_PNR_prohibit_p_home(jl) ==
    LET n == Len(jl) IN
    SetTargets(jl[1].transition_rules, n + 2)
    \o << Rule("a", n + 2), Rule("D", n + 2), Rule("w", n + 2),
          Rule("p", n + 1) >>

\* level len(new_journey_levels)+2: every mode is prohibited
WLK_TRN_PNR_prohibit(jl) ==
    LET n == Len(jl) IN
    SetTargets(jl[1].transition_rules, n + 2)
    \o << Rule("a", n + 2), Rule("D", n + 2), Rule("w", n + 2),
          Rule("p", n + 2) >>

\* the finished level list of WLK_TRN_PNR
WLK_TRN_PNR_levels(jl) ==
    LET levels ==
            << NewLevel("walk access", TRUE, WLK_TRN_PNR_walk_access(jl)) >>
            \o WLK_TRN_PNR_copied(jl)
            \o << NewLevel("drive home", TRUE, WLK_TRN_PNR_drive_home(jl)),
                  NewLevel("prohibit", FALSE, WLK_TRN_PNR_prohibit(jl)) >>
    IN Finish(levels, 1, Len(levels) - 2)

\* self.name == "KNR_TRN_WLK": levels copied from the template (loop over i)
KNR_TRN_WLK_copied(jl) ==
    LET n == Len(jl) IN
    [j \in 1..n |->
        [jl[j] EXCEPT !.transition_rules =
            ShiftTargets(jl[j].transition_rules, 1)
            \o << Rule("e", (j - 1) + 2),
                  Rule("D", n + 2),
                  Rule("w", (j - 1) + 2),
                  Rule("k", n + 2) >>]]

\* level 0: drive access
KNR_TRN_WLK_drive_access(jl) ==
    LET n == Len(jl) IN
    SetTargets(jl[1].transition_rules, n + 2)
    \o << Rule("e", n + 2), Rule("D", 0), Rule("w", n + 2), Rule("k", 1) >>

\* faulty variant of KNR_TRN_WLK_knr: the walk rule is missing
KNR_TRN_WLK_knr_no_walk(jl) ==
    LET n == Len(jl) IN
    SetTargets(jl[1].transition_rules, 2)
    \o << Rule("e", n + 2), Rule("D", n + 2), Rule("k", 1) >>

\* level 1: use transit
KNR_TRN_WLK_knr(jl) ==
    LET n == Len(jl) IN
    SetTargets(jl[1].transition_rules, 2)
    \o << Rule("e", n + 2), Rule("D", n + 2), Rule("w", n + 2), Rule("k", 1) >>

\* level len(new_journey_levels)+2: every mode is prohibited
KNR_TRN_WLK_prohibit(jl) ==
    LET n == Len(jl) IN
    SetTargets(jl[1].transition_rules, n + 2)
    \o << Rule("e", n + 2), Rule("D", n + 2), Rule("w", n + 2),
          Rule("k", n + 2) >>

\* the finished level list of KNR_TRN_WLK
KNR_TRN_WLK_levels(jl) ==
    LET levels ==
            << NewLevel("drive access", FALSE, KNR_TRN_WLK_drive_access(jl)),
               NewLevel("knr", FALSE, KNR_TRN_WLK_knr(jl)) >>
            \o KNR_TRN_WLK_copied(jl)
            \o << NewLevel("prohibit", FALSE, KNR_TRN_WLK_prohibit(jl)) >>
    IN Finish(levels, 2, Len(levels) - 1)

\* self.name == "WLK_TRN_KNR": levels copied from the template (loop over i)
WLK_TRN_KNR_copied(jl) ==
    LET n == Len(jl) IN
    [j \in 1..n |->
        [jl[j] EXCEPT !.destinations_reachable = FALSE,
                      !.transition_rules =
            jl[j].transition_rules
            \o << Rule("a", n + 2),
                  Rule("D", n + 2),
                  Rule("w", (j - 1) + 1),
                  Rule("k", n + 1) >>]]

\* level 0: walk access
WLK_TRN_KNR_walk_access(jl) ==
    LET n == Len(jl) IN
    SetTargets(jl[1].transition_rules, 1)
    \o << Rule("a", 0), Rule("D", n + 2), Rule("w", n + 2), Rule("k", n + 2) >>

\* level len(new_journey_levels)+1: drive home
WLK_TRN_KNR_drive_home(jl) ==
    LET n == Len(jl) IN
    SetTargets(jl[1].transition_rules, n + 2)
    \o << Rule("a", n + 2), Rule("D", n + 1), Rule("w", n + 2),
          Rule("k", n + 2) >>

\* level len(new_journey_levels)+2: every mode is prohibited
WLK_TRN_KNR_prohibit(jl) ==
    LET n == Len(jl) IN
    SetTargets(jl[1].transition_rules, n + 2)
    \o << Rule("a", n + 2), Rule("D", n + 2), Rule("w", n + 2),
          Rule("k", n + 2) >>

\* the finished level list of WLK_TRN_KNR
WLK_TRN_KNR_levels(jl) ==
    LET levels ==
            << NewLevel("walk access", TRUE, WLK_TRN_KNR_walk_access(jl)) >>
            \o WLK_TRN_KNR_copied(jl)
            \o << NewLevel("drive home", TRUE, WLK_TRN_KNR_drive_home(jl)),
                  NewLevel("prohibit", FALSE, WLK_TRN_KNR_prohibit(jl)) >>
    IN Finish(levels, 1, Len(levels) - 2)

\* faulty variant of WLK_TRN_WLK_levels: the template targets are renumbered
\* as in the outbound variants
WLK_TRN_WLK_levels_shifted(jl) ==
    LET levels ==
            << NewLevel("base", TRUE, jl[1].transition_rules) >>
            \o [j \in DOMAIN jl |->
                   [jl[j] EXCEPT !.transition_rules =
                       ShiftTargets(jl[j].transition_rules, 1)]]
    IN Finish(levels, 1, Len(levels))

\* self.name == "WLK_TRN_WLK": a "base" level in front of the template
WLK_TRN_WLK_levels(jl) ==
    LET levels ==
            << NewLevel("base", TRUE, jl[1].transition_rules) >> \o jl
    IN Finish(levels, 1, Len(levels))

\* use_fares is off: two levels over the class's transit modes
NoFares_levels ==
    << [description |-> "",
        destinations_reachable |-> TRUE,
        transition_rules |->
            [k \in DOMAIN transit_mode_list |-> Rule(transit_mode_list[k], 1)],
        waiting_time |-> "absent",
        boarding_time |-> "absent",
        boarding_cost |-> "absent"],
       [description |-> "",
        destinations_reachable |-> TRUE,
        transition_rules |->
            [k \in DOMAIN transit_mode_list |-> Rule(transit_mode_list[k], 1)],
        waiting_time |-> "shared",
        boarding_time |-> "shared",
        boarding_cost |-> "absent"] >>

(***************************************************************************)
(* TransitAssignmentClass._journey_levels as a state machine               *)
(***************************************************************************)
NoArtifact == [state |-> "absent", levels |-> << >>]

JLInit ==
    /\ name \in ClassNames \cup {"OTHER"}
    /\ use_fares \in BOOLEAN
    /\ mode_types \in ModeTypeChoices
    /\ template_file \in TemplatesDrawn(use_fares)
    /\ template_loaded = FALSE
    /\ journey_levels = << >>
    /\ new_journey_levels = << >>
    /\ njl_bound = FALSE
    /\ artifact = NoArtifact
    /\ returned = << >>
    /\ jpc = "start"

JLIdle ==
    /\ name = "WLK_TRN_WLK"
    /\ use_fares = FALSE
    /\ mode_types = {"WALK", "ACCESS", "EGRESS", "LOCAL"}
    /\ template_file = << >>
    /\ template_loaded = FALSE
    /\ journey_levels = << >>
    /\ new_journey_levels = << >>
    /\ njl_bound = FALSE
    /\ artifact = NoArtifact
    /\ returned = << >>
    /\ jpc = "idle"

\* if self._config.use_fares: ... journey_levels = _json.load(jl_spec)[...]
LoadTemplate ==
    /\ jpc = "start"
    /\ use_fares
    /\ journey_levels' = template_file
    /\ template_loaded' = TRUE
    /\ jpc' = "loaded"
    /\ UNCHANGED <<run_vars, fn_vars, cost_vars, eawt_vars, pass_vars,
                   journey_vars>>
    /\ UNCHANGED <<name, use_fares, mode_types, template_file,
                   new_journey_levels, njl_bound, artifact, returned>>

\* the body of one `if self.name == ...` branch
BuildBranch(class_name, levels) ==
    /\ jpc = "loaded"
    /\ name = class_name
    /\ Len(journey_levels) >= 1
    /\ new_journey_levels' = levels
    /\ njl_bound' = TRUE
    /\ jpc' = "write"
    /\ UNCHANGED <<run_vars, fn_vars, cost_vars, eawt_vars, pass_vars,
                   journey_vars>>
    /\ UNCHANGED <<name, use_fares, mode_types, template_file,
                   template_loaded, journey_levels, artifact, returned>>

Build_PNR_TRN_WLK ==
    BuildBranch("PNR_TRN_WLK", PNR_TRN_WLK_levels(journey_levels))

Build_WLK_TRN_PNR ==
    BuildBranch("WLK_TRN_PNR", WLK_TRN_PNR_levels(journey_levels))

Build_KNR_TRN_WLK ==
    BuildBranch("KNR_TRN_WLK", KNR_TRN_WLK_levels(journey_levels))

Build_WLK_TRN_KNR ==
    BuildBranch("WLK_TRN_KNR", WLK_TRN_KNR_levels(journey_levels))

Build_WLK_TRN_WLK ==
    BuildBranch("WLK_TRN_WLK", WLK_TRN_WLK_levels(journey_levels))

\* journey_levels[0] on an empty template: IndexError leaves the property
RaiseIndexError ==
    /\ jpc = "loaded"
    /\ name \in ClassNames
    /\ Len(journey_levels) = 0
    /\ jpc' = "error"
    /\ UNCHANGED <<run_vars, fn_vars, cost_vars, eawt_vars, pass_vars,
                   journey_vars>>
    /\ UNCHANGED <<name, use_fares, mode_types, template_file,
                   template_loaded, journey_levels, new_journey_levels,
                   njl_bound, artifact, returned>>

\* no branch of the if/elif chain matches self.name
NoBranch ==
    /\ jpc = "loaded"
    /\ name \notin ClassNames
    /\ jpc' = "write"
    /\ UNCHANGED <<run_vars, fn_vars, cost_vars, eawt_vars, pass_vars,
                   journey_vars>>
    /\ UNCHANGED <<name, use_fares, mode_types, template_file,
                   template_loaded, journey_levels, new_journey_levels,
                   njl_bound, artifact, returned>>

\* with open(..., "w") as jl_spec_file: _json.dump(spec, jl_spec_file)
WriteArtifact ==
    /\ jpc = "write"
    /\ njl_bound
    /\ artifact' = [state |-> "written", levels |-> new_journey_levels]
    /\ jpc' = "return"
    /\ UNCHANGED <<run_vars, fn_vars, cost_vars, eawt_vars, pass_vars,
                   journey_vars>>
    /\ UNCHANGED <<name, use_fares, mode_types, template_file,
                   template_loaded, journey_levels, new_journey_levels,
                   njl_bound, returned>>

\* open(..., "w") creates the file, then reading the unbound local
\* new_journey_levels raises: the file is left empty
WriteArtifactUnbound ==
    /\ jpc = "write"
    /\ ~njl_bound
    /\ artifact' = [state |-> "empty", levels |-> << >>]
    /\ jpc' = "error"
    /\ UNCHANGED <<run_vars, fn_vars, cost_vars, eawt_vars, pass_vars,
                   journey_vars>>
    /\ UNCHANGED <<name, use_fares, mode_types, template_file,
                   template_loaded, journey_levels, new_journey_levels,
                   njl_bound, returned>>

\* else: new_journey_levels = [ {...}, {...} ] over self._transit_modes
BuildNoFares ==
    /\ jpc = "start"
    /\ ~use_fares
    /\ new_journey_levels' = NoFares_levels
    /\ njl_bound' = TRUE
    /\ jpc' = "return"
    /\ UNCHANGED <<run_vars, fn_vars, cost_vars, eawt_vars, pass_vars,
                   journey_vars>>
    /\ UNCHANGED <<name, use_fares, mode_types, template_file,
                   template_loaded, journey_levels, artifact, returned>>

\* faulty variant of Return: a list that leaves a class mode without a rule
\* in some level is refused
ReturnIfComplete ==
    /\ jpc = "return"
    /\ IF \A i \in DOMAIN new_journey_levels :
             \A m \in _modes :
                \E k \in DOMAIN new_journey_levels[i].transition_rules :
                    new_journey_levels[i].transition_rules[k].mode = m
       THEN returned' = new_journey_levels /\ jpc' = "done"
       ELSE returned' = returned /\ jpc' = "error"
    /\ UNCHANGED <<run_vars, fn_vars, cost_vars, eawt_vars, pass_vars,
                   journey_vars>>
    /\ UNCHANGED <<name, use_fares, mode_types, template_file,
                   template_loaded, journey_levels, new_journey_levels,
                   njl_bound, artifact>>

\* return new_journey_levels
Return ==
    /\ jpc = "return"
    /\ returned' = new_journey_levels
    /\ jpc' = "done"
    /\ UNCHANGED <<run_vars, fn_vars, cost_vars, eawt_vars, pass_vars,
                   journey_vars>>
    /\ UNCHANGED <<name, use_fares, mode_types, template_file,
                   template_loaded, journey_levels, new_journey_levels,
                   njl_bound, artifact>>

JLNext ==
    \/ LoadTemplate
    \/ Build_PNR_TRN_WLK
    \/ Build_WLK_TRN_PNR
    \/ Build_KNR_TRN_WLK
    \/ Build_WLK_TRN_KNR
    \/ Build_WLK_TRN_WLK
    \/ RaiseIndexError
    \/ NoBranch
    \/ WriteArtifact
    \/ WriteArtifactUnbound
    \/ BuildNoFares
    \/ Return

(***************************************************************************)
(* TransitAssignment.run, run_transit_assign and the three variants        *)
(***************************************************************************)
Periods == 1..NumPeriods

RunInit ==
    /\ iteration \in {-1, 0}
    /\ cfg_use_ccr \in BOOLEAN
    /\ cfg_congested \in BOOLEAN
    /\ run_use_ccr = FALSE
    /\ congested_bound = FALSE
    /\ period = 0
    /\ rpc = "call"
    /\ engine = "idle"
    /\ penalty = "idle"
    /\ assigned = [p \in Periods |-> 0]
    /\ penalised = [p \in Periods |-> 0]
    /\ variant = [p \in Periods |-> "none"]
    /\ demand_prepared = FALSE
    /\ class_idx = 0
    /\ add_volumes = FALSE
    /\ volumes_from = [p \in Periods |-> {}]

RunIdle ==
    /\ iteration = 0
    /\ cfg_use_ccr = FALSE
    /\ cfg_congested = FALSE
    /\ run_use_ccr = FALSE
    /\ congested_bound = FALSE
    /\ period = 0
    /\ rpc = "idle"
    /\ engine = "idle"
    /\ penalty = "idle"
    /\ assigned = [p \in Periods |-> 0]
    /\ penalised = [p \in Periods |-> 0]
    /\ variant = [p \in Periods |-> "none"]
    /\ demand_prepared = FALSE
    /\ class_idx = 0
    /\ add_volumes = FALSE
    /\ volumes_from = [p \in Periods |-> {}]

\* run(): iteration >= 0: read the flags, prepare the demand
RunEnter ==
    /\ rpc = "call"
    /\ iteration >= 0
    /\ run_use_ccr' = cfg_use_ccr
    /\ congested_bound' = TRUE
    /\ demand_prepared' = TRUE
    /\ period' = 1
    /\ rpc' = "period"
    /\ UNCHANGED <<jl_vars, fn_vars, cost_vars, eawt_vars, pass_vars,
                   journey_vars>>
    /\ UNCHANGED <<iteration, cfg_use_ccr, cfg_congested, engine, penalty,
                   assigned, penalised, variant, class_idx, add_volumes,
                   volumes_from>>

\* run(): iteration < 0: use_ccr stays False, the congested flag stays unbound
RunEnterNegative ==
    /\ rpc = "call"
    /\ iteration < 0
    /\ run_use_ccr' = FALSE
    /\ congested_bound' = FALSE
    /\ demand_prepared' = FALSE
    /\ period' = 1
    /\ rpc' = "period"
    /\ UNCHANGED <<jl_vars, fn_vars, cost_vars, eawt_vars, pass_vars,
                   journey_vars>>
    /\ UNCHANGED <<iteration, cfg_use_ccr, cfg_congested, engine, penalty,
                   assigned, penalised, variant, class_idx, add_volumes,
                   volumes_from>>

\* for time_period in ...: self.transit_network.update_auto_times(time_period)
UpdateAutoTimes ==
    /\ rpc = "period"
    /\ period <= NumPeriods
    /\ rpc' = "dispatch"
    /\ UNCHANGED <<jl_vars, fn_vars, cost_vars, eawt_vars, pass_vars,
                   journey_vars>>
    /\ UNCHANGED <<iteration, cfg_use_ccr, cfg_congested, run_use_ccr,
                   congested_bound, period, engine, penalty, assigned,
                   penalised, variant, demand_prepared, class_idx,
                   add_volumes, volumes_from>>

\* evaluating the argument congested_transit_assignment while it is unbound
RaiseUnboundLocal ==
    /\ rpc = "dispatch"
    /\ ~congested_bound
    /\ rpc' = "error"
    /\ UNCHANGED <<jl_vars, fn_vars, cost_vars, eawt_vars, pass_vars,
                   journey_vars>>
    /\ UNCHANGED <<iteration, cfg_use_ccr, cfg_congested, run_use_ccr,
                   congested_bound, period, engine, penalty, assigned,
                   penalised, variant, demand_prepared, class_idx,
                   add_volumes, volumes_from>>

\* if use_ccr: _run_ccr_assign ... assign_transit(...) is called
CcrAssignCall ==
    /\ rpc = "dispatch"
    /\ congested_bound
    /\ run_use_ccr
    /\ engine' = "running"
    /\ variant' = [variant EXCEPT ![period] = "ccr"]
    /\ rpc' = "ccr_engine"
    /\ UNCHANGED <<jl_vars, fn_vars, cost_vars, eawt_vars, pass_vars,
                   journey_vars>>
    /\ UNCHANGED <<iteration, cfg_use_ccr, cfg_congested, run_use_ccr,
                   congested_bound, period, penalty, assigned, penalised,
                   demand_prepared, class_idx, add_volumes, volumes_from>>

\* faulty variant of CcrAssignReturn: the penalty recomputation is left out
CcrAssignReturnNoPenalties ==
    /\ rpc = "ccr_engine"
    /\ engine' = "idle"
    /\ assigned' = [assigned EXCEPT ![period] = @ + 1]
    /\ rpc' = "summaries"
    /\ UNCHANGED <<jl_vars, fn_vars, cost_vars, eawt_vars, pass_vars,
                   journey_vars>>
    /\ UNCHANGED <<iteration, cfg_use_ccr, cfg_congested, run_use_ccr,
                   congested_bound, period, penalty, penalised, variant,
                   demand_prepared, class_idx, add_volumes, volumes_from>>

\* assign_transit(...) returns; next statement is _calc_segment_ccr_penalties
CcrAssignReturn ==
    /\ rpc = "ccr_engine"
    /\ engine' = "idle"
    /\ assigned' = [assigned EXCEPT ![period] = @ + 1]
    /\ rpc' = "ccr_penalties"
    /\ UNCHANGED <<jl_vars, fn_vars, cost_vars, eawt_vars, pass_vars,
                   journey_vars>>
    /\ UNCHANGED <<iteration, cfg_use_ccr, cfg_congested, run_use_ccr,
                   congested_bound, period, penalty, penalised, variant,
                   demand_prepared, class_idx, add_volumes, volumes_from>>

\* _calc_segment_ccr_penalties: the network is loaded, the pass begins
PenaltiesBegin ==
    /\ rpc = "ccr_penalties"
    /\ penalty' = "running"
    /\ rpc' = "ccr_penalties_run"
    /\ UNCHANGED <<jl_vars, fn_vars, cost_vars, eawt_vars, pass_vars,
                   journey_vars>>
    /\ UNCHANGED <<iteration, cfg_use_ccr, cfg_congested, run_use_ccr,
                   congested_bound, period, engine, assigned, penalised,
                   variant, demand_prepared, class_idx, add_volumes,
                   volumes_from>>

\* _calc_segment_ccr_penalties: @eawt, @capacity_penalty copied to the scenario
PenaltiesCommit ==
    /\ rpc = "ccr_penalties_run"
    /\ penalty' = "idle"
    /\ penalised' = [penalised EXCEPT ![period] = @ + 1]
    /\ rpc' = "summaries"
    /\ UNCHANGED <<jl_vars, fn_vars, cost_vars, eawt_vars, pass_vars,
                   journey_vars>>
    /\ UNCHANGED <<iteration, cfg_use_ccr, cfg_congested, run_use_ccr,
                   congested_bound, period, engine, assigned, variant,
                   demand_prepared, class_idx, add_volumes, volumes_from>>

\* faulty variant of CongestedAssignCall: the congested flag is tested
\* without regard to use_ccr
CongestedAssignCallFirst ==
    /\ rpc = "dispatch"
    /\ congested_bound
    /\ cfg_congested
    /\ engine' = "running"
    /\ variant' = [variant EXCEPT ![period] = "congested"]
    /\ rpc' = "congested_engine"
    /\ UNCHANGED <<jl_vars, fn_vars, cost_vars, eawt_vars, pass_vars,
                   journey_vars>>
    /\ UNCHANGED <<iteration, cfg_use_ccr, cfg_congested, run_use_ccr,
                   congested_bound, period, penalty, assigned, penalised,
                   demand_prepared, class_idx, add_volumes, volumes_from>>

\* elif congested_transit_assignment: _run_congested_assign, engine called
CongestedAssignCall ==
    /\ rpc = "dispatch"
    /\ congested_bound
    /\ ~run_use_ccr
    /\ cfg_congested
    /\ engine' = "running"
    /\ variant' = [variant EXCEPT ![period] = "congested"]
    /\ rpc' = "congested_engine"
    /\ UNCHANGED <<jl_vars, fn_vars, cost_vars, eawt_vars, pass_vars,
                   journey_vars>>
    /\ UNCHANGED <<iteration, cfg_use_ccr, cfg_congested, run_use_ccr,
                   congested_bound, period, penalty, assigned, penalised,
                   demand_prepared, class_idx, add_volumes, volumes_from>>

CongestedAssignReturn ==
    /\ rpc = "congested_engine"
    /\ engine' = "idle"
    /\ assigned' = [assigned EXCEPT ![period] = @ + 1]
    /\ rpc' = "summaries"
    /\ UNCHANGED <<jl_vars, fn_vars, cost_vars, eawt_vars, pass_vars,
                   journey_vars>>
    /\ UNCHANGED <<iteration, cfg_use_ccr, cfg_congested, run_use_ccr,
                   congested_bound, period, penalty, penalised, variant,
                   demand_prepared, class_idx, add_volumes, volumes_from>>

\* faulty variant of ExtendedBegin: the first class is assigned with
\* add_volumes = True
ExtendedBeginAdding ==
    /\ rpc = "dispatch"
    /\ congested_bound
    /\ ~run_use_ccr
    /\ ~cfg_congested
    /\ variant' = [variant EXCEPT ![period] = "extended"]
    /\ class_idx' = 0
    /\ add_volumes' = TRUE
    /\ rpc' = "extended_loop"
    /\ UNCHANGED <<jl_vars, fn_vars, cost_vars, eawt_vars, pass_vars,
                   journey_vars>>
    /\ UNCHANGED <<iteration, cfg_use_ccr, cfg_congested, run_use_ccr,
                   congested_bound, period, engine, penalty, assigned,
                   penalised, demand_prepared, volumes_from>>

\* else: _run_extended_assign: add_volumes = False before the class loop
ExtendedBegin ==
    /\ rpc = "dispatch"
    /\ congested_bound
    /\ ~run_use_ccr
    /\ ~cfg_congested
    /\ variant' = [variant EXCEPT ![period] = "extended"]
    /\ class_idx' = 0
    /\ add_volumes' = FALSE
    /\ rpc' = "extended_loop"
    /\ UNCHANGED <<jl_vars, fn_vars, cost_vars, eawt_vars, pass_vars,
                   journey_vars>>
    /\ UNCHANGED <<iteration, cfg_use_ccr, cfg_congested, run_use_ccr,
                   congested_bound, period, engine, penalty, assigned,
                   penalised, demand_prepared, volumes_from>>

\* one pass of the class loop: assign_transit(..., add_volumes=add_volumes)
ExtendedAssignClass ==
    /\ rpc = "extended_loop"
    /\ class_idx < NumClasses
    /\ volumes_from' =
           [volumes_from EXCEPT ![period] =
               IF add_volumes THEN @ \cup {<<iteration, class_idx + 1>>}
               ELSE {<<iteration, class_idx + 1>>}]
    /\ assigned' = [assigned EXCEPT ![period] = @ + 1]
    /\ class_idx' = class_idx + 1
    /\ add_volumes' = TRUE
    /\ UNCHANGED <<jl_vars, fn_vars, cost_vars, eawt_vars, pass_vars,
                   journey_vars>>
    /\ UNCHANGED <<iteration, cfg_use_ccr, cfg_congested, run_use_ccr,
                   congested_bound, period, rpc, engine, penalty, penalised,
                   variant, demand_prepared>>

ExtendedEnd ==
    /\ rpc = "extended_loop"
    /\ class_idx = NumClasses
    /\ rpc' = "summaries"
    /\ UNCHANGED <<jl_vars, fn_vars, cost_vars, eawt_vars, pass_vars,
                   journey_vars>>
    /\ UNCHANGED <<iteration, cfg_use_ccr, cfg_congested, run_use_ccr,
                   congested_bound, period, engine, penalty, assigned,
                   penalised, variant, demand_prepared, class_idx,
                   add_volumes, volumes_from>>

\* run_transit_assign: output summaries, then the next time period
Summaries ==
    /\ rpc = "summaries"
    /\ period' = period + 1
    /\ rpc' = "period"
    /\ UNCHANGED <<jl_vars, fn_vars, cost_vars, eawt_vars, pass_vars,
                   journey_vars>>
    /\ UNCHANGED <<iteration, cfg_use_ccr, cfg_congested, run_use_ccr,
                   congested_bound, engine, penalty, assigned, penalised,
                   variant, demand_prepared, class_idx, add_volumes,
                   volumes_from>>

\* the loop over the time periods is exhausted: run() returns
RunReturn ==
    /\ rpc = "period"
    /\ period > NumPeriods
    /\ rpc' = "returned"
    /\ UNCHANGED <<jl_vars, fn_vars, cost_vars, eawt_vars, pass_vars,
                   journey_vars>>
    /\ UNCHANGED <<iteration, cfg_use_ccr, cfg_congested, run_use_ccr,
                   congested_bound, period, engine, penalty, assigned,
                   penalised, variant, demand_prepared, class_idx,
                   add_volumes, volumes_from>>

\* the controller starts the next outer iteration and calls run() again
NextIteration ==
    /\ rpc = "returned"
    /\ iteration < MaxIteration
    /\ iteration' = iteration + 1
    /\ rpc' = "call"
    /\ UNCHANGED <<jl_vars, fn_vars, cost_vars, eawt_vars, pass_vars,
                   journey_vars>>
    /\ UNCHANGED <<cfg_use_ccr, cfg_congested, run_use_ccr, congested_bound,
                   period, engine, penalty, assigned, penalised, variant,
                   demand_prepared, class_idx, add_volumes, volumes_from>>

RunNext ==
    \/ RunEnter
    \/ RunEnterNegative
    \/ UpdateAutoTimes
    \/ RaiseUnboundLocal
    \/ CcrAssignCall
    \/ CcrAssignReturn
    \/ PenaltiesBegin
    \/ PenaltiesCommit
    \/ CongestedAssignCall
    \/ CongestedAssignReturn
    \/ ExtendedBegin
    \/ ExtendedAssignClass
    \/ ExtendedEnd
    \/ Summaries
    \/ RunReturn
    \/ NextIteration

(***************************************************************************)
(* calc_adjusted_headway.  Results are exact fractions [n, d] with d > 0   *)
(* of hundredths of a minute; min and max compare by cross-multiplying.    *)
(***************************************************************************)
Rat(n, d) == [n |-> n, d |-> d]
RatLeq(a, b) == a.n * b.d <= b.n * a.d
RatLess(a, b) == a.n * b.d < b.n * a.d
RatEq(a, b) == a.n * b.d = b.n * a.d
\* Python's min(a, b) / max(a, b): the first argument unless the second is
\* strictly smaller / larger
RatMin(a, b) == IF RatLess(b, a) THEN b ELSE a
RatMax(a, b) == IF RatLess(a, b) THEN b ELSE a

\* line headways (nominal) and previous perceived headways drawn as inputs
HeadwayValues == {0, 5, 1000, 99998, 99999, 150000}
PhdwyValues == {0, 1000, 70000, 99999}

SegmentInputs ==
    [transit_volume : 0..MaxPax,
     transit_boardings : 0..MaxPax,
     capacity : 0..MaxPax,
     phdwy : PhdwyValues,
     headway : HeadwayValues]

\* max(segment_capacity - _transit_volume + _transit_boardings, 0)
available_capacity(segment) ==
    LET c == segment.capacity - segment.transit_volume
             + segment.transit_boardings
    IN IF c > 0 THEN c ELSE 0

\* faulty variant of capped_headway: the ceiling max_headway is not applied
capped_headway_no_ceiling(segment) ==
    LET growth == RatMin(Rat(segment.transit_boardings + 1,
                             available_capacity(segment) + 1),
                         Rat(3, 2))
    IN Rat(segment.phdwy * growth.n, growth.d)

\* min(max_headway, _previous_headway * min((b + 1) / (avail + 1), 1.5))
capped_headway(segment) ==
    LET growth == RatMin(Rat(segment.transit_boardings + 1,
                             available_capacity(segment) + 1),
                         Rat(3, 2))
    IN RatMin(Rat(max_headway, 1),
              Rat(segment.phdwy * growth.n, growth.d))

\* faulty variant of calc_adjusted_headway: the floor at the line headway is
\* not applied
calc_adjusted_headway_no_floor(segment) ==
    capped_headway(segment)

\* adjusted_headway = max(_current_headway, adjusted_headway)
calc_adjusted_headway(segment) ==
    RatMax(Rat(segment.headway, 1), capped_headway(segment))

FnInit ==
    /\ seg \in SegmentInputs
    /\ hdwy_out = Rat(0, 1)
    /\ fpc = "input"

FnIdle ==
    /\ seg = [transit_volume |-> 0, transit_boardings |-> 0, capacity |-> 0,
              phdwy |-> 0, headway |-> 0]
    /\ hdwy_out = Rat(0, 1)
    /\ fpc = "idle"

\* one call of calc_adjusted_headway(segment, segment_capacity)
CallAdjustedHeadway ==
    /\ fpc = "input"
    /\ hdwy_out' = calc_adjusted_headway(seg)
    /\ fpc' = "done"
    /\ UNCHANGED <<jl_vars, run_vars, cost_vars, eawt_vars, pass_vars,
                   journey_vars>>
    /\ UNCHANGED seg

FnNext ==
    \/ CallAdjustedHeadway

(***************************************************************************)
(* Exact arithmetic on fractions.  The float quantities of the segment     *)
(* functions are held as exact fractions [n, d] with d > 0 in lowest terms; *)
(* the rounding of floating-point arithmetic is not part of the model.     *)
(***************************************************************************)
RECURSIVE GCD(_, _)
GCD(a, b) == IF b = 0 THEN a ELSE GCD(b, a % b)

Abs(x) == IF x < 0 THEN 0 - x ELSE x

\* n / d in lowest terms with a positive denominator (d # 0)
RatNorm(n, d) ==
    LET g == GCD(Abs(n), Abs(d))
        sgn == IF d < 0 THEN 0 - 1 ELSE 1
    IN Rat((sgn * n) \div g, (sgn * d) \div g)

RatInt(k) == Rat(k, 1)

RatAdd(a, b) ==
    LET g == GCD(a.d, b.d)
    IN RatNorm(a.n * (b.d \div g) + b.n * (a.d \div g), (a.d \div g) * b.d)

RatNeg(a) == Rat(0 - a.n, a.d)

RatSub(a, b) == RatAdd(a, RatNeg(b))

RatMul(a, b) ==
    LET g1 == GCD(Abs(a.n), b.d)
        g2 == GCD(Abs(b.n), a.d)
    IN RatNorm((a.n \div g1) * (b.n \div g2), (a.d \div g2) * (b.d \div g1))

\* a / b for b # 0
RatDiv(a, b) == RatMul(a, RatNorm(b.d, b.n))

\* a ** k for a whole exponent k >= 0 (a ** 0 is 1, also for a = 0)
RECURSIVE RatPow(_, _)
RatPow(a, k) == IF k = 0 THEN RatInt(1) ELSE RatMul(a, RatPow(a, k - 1))

\* the outcome of a call: a returned value or a raised exception
Value(v) == [kind |-> "value", value |-> v]
Raised(exc) == [kind |-> "raised", value |-> exc]
NoOutcome == [kind |-> "none", value |-> "none"]

(***************************************************************************)
(* calc_segment_cost: the capacitated crowding cost (generated by          *)
(* func_returns_crowded_segment_cost) and the congestion cost (generated   *)
(* by func_returns_segment_congestion).  Line headways are in hundredths   *)
(* of a minute; volumes and capacities are passengers.                     *)
(***************************************************************************)
\* the weight sets a configuration may carry: curve minimum and maximum as
\* fractions, exponents as whole numbers
TypicalWeights ==
    [min_seat |-> Rat(1, 1), max_seat |-> Rat(7, 5), power_seat |-> 2,
     min_stand |-> Rat(7, 5), max_stand |-> Rat(8, 5), power_stand |-> 3]
CheapStandingWeights ==
    [min_seat |-> Rat(2, 1), max_seat |-> Rat(2, 1), power_seat |-> 1,
     min_stand |-> Rat(1, 1), max_stand |-> Rat(1, 1), power_stand |-> 1]
InvertedWeights ==
    [min_seat |-> Rat(7, 5), max_seat |-> Rat(1, 1), power_seat |-> 1,
     min_stand |-> Rat(8, 5), max_stand |-> Rat(7, 5), power_stand |-> 1]
WeightsChoices == {TypicalWeights, CheapStandingWeights, InvertedWeights}

\* faulty variant of seated_capacity: the seats of one vehicle
seated_capacity_per_vehicle(line, time_period_duration) ==
    RatInt(line.seated_capacity)

\* line.vehicle.seated_capacity * {time_period_duration} * 60 / line.headway
\* (line.headway # 0)
seated_capacity(line, time_period_duration) ==
    RatNorm(line.seated_capacity * time_period_duration * 60 * 100,
            line.headway)

\* seated_pax = min(transit_volume, seated_capacity)
seated_pax(transit_volume, seated_cap) ==
    RatMin(RatInt(transit_volume), seated_cap)

\* faulty variant of standing_pax: the volume above the seated capacity
\* counted twice
standing_pax_doubled(transit_volume, seated) ==
    RatMax(RatMul(RatInt(2), RatSub(RatInt(transit_volume), seated)),
           RatInt(0))

\* standing_pax = max(transit_volume - seated_pax, 0)
standing_pax(transit_volume, seated) ==
    RatMax(RatSub(RatInt(transit_volume), seated), RatInt(0))

\* faulty variant of seated_cost: the curve falls from max_seat
seated_cost_falling(weights, transit_volume, capacity) ==
    RatSub(weights.max_seat,
           RatMul(RatSub(weights.max_seat, weights.min_seat),
                  RatPow(RatNorm(transit_volume, capacity),
                         weights.power_seat)))

\* min_seat + (max_seat - min_seat) * (transit_volume / capacity) ** power_seat
\* (capacity # 0)
seated_cost(weights, transit_volume, capacity) ==
    RatAdd(weights.min_seat,
           RatMul(RatSub(weights.max_seat, weights.min_seat),
                  RatPow(RatNorm(transit_volume, capacity),
                         weights.power_seat)))

\* min_stand + (max_stand - min_stand) * (transit_volume / capacity) ** power_stand
standing_cost(weights, transit_volume, capacity) ==
    RatAdd(weights.min_stand,
           RatMul(RatSub(weights.max_stand, weights.min_stand),
                  RatPow(RatNorm(transit_volume, capacity),
                         weights.power_stand)))

\* seated_cost * seated_pax + standing_cost * standing_pax
weighted_pax(weights, transit_volume, capacity, sp) ==
    RatAdd(RatMul(seated_cost(weights, transit_volume, capacity),
                  sp.seated_pax),
           RatMul(standing_cost(weights, transit_volume, capacity),
                  sp.standing_pax))

\* crowded_cost = (...) / (transit_volume + 0.01)
crowded_cost(weights, transit_volume, capacity, sp) ==
    RatDiv(weighted_pax(weights, transit_volume, capacity, sp),
           RatAdd(RatInt(transit_volume), Rat(1, 100)))

\* faulty variant of normalized_crowded_cost: the floor at 0 is not applied
normalized_crowded_cost_no_floor(weights, transit_volume, capacity, sp) ==
    RatSub(crowded_cost(weights, transit_volume, capacity, sp), RatInt(1))

\* normalized_crowded_cost = max(crowded_cost - 1, 0)
normalized_crowded_cost(weights, transit_volume, capacity, sp) ==
    RatMax(RatSub(crowded_cost(weights, transit_volume, capacity, sp),
                  RatInt(1)),
           RatInt(0))

\* faulty variant of congested_crowded_cost: the divisor of the crowding cost
congested_crowded_cost_with_epsilon(weights, transit_volume, capacity, sp) ==
    RatDiv(weighted_pax(weights, transit_volume, capacity, sp),
           RatAdd(RatInt(transit_volume), Rat(1, 100)))

\* congestion cost: crowded_cost = (...) / (transit_volume)
\* (transit_volume > 0)
congested_crowded_cost(weights, transit_volume, capacity, sp) ==
    RatDiv(weighted_pax(weights, transit_volume, capacity, sp),
           RatInt(transit_volume))

\* congestion = max(crowded_cost, 1) - 1.0
congestion(weights, transit_volume, capacity, sp) ==
    RatSub(RatMax(congested_crowded_cost(weights, transit_volume, capacity,
                                         sp),
                  RatInt(1)),
           RatInt(1))

\* congestion = 0.25 * ((transit_volume / capacity) ** 8)
pnr_congestion(transit_volume, capacity) ==
    RatMul(Rat(1, 4), RatPow(RatNorm(transit_volume, capacity), 8))

\* the lines of the segments the engine evaluates: nominal headway, seats
\* per vehicle, mode id and fare source mode
CostHeadways == {0, 6000, 12000}
CostLines ==
    [headway : CostHeadways,
     seated_capacity : 0..2,
     mode_id : {"b", "p"},
     src_mode : {"b", "p"}]

\* a line with headway 10 and 50 seats per vehicle, volumes 40, 80 and 120
ScenarioLine ==
    [headway |-> 1000, seated_capacity |-> 50, mode_id |-> "b",
     src_mode |-> "b"]
ScenarioVolumes == {40, 80, 120}

\* the calls of the crowding cost: the generator substitutes
\* time_period_duration and weights only
CrowdedCalls ==
    [transit_volume : (0 - 1)..MaxPax,
     capacity : 0..(MaxPax - 1),
     line : { l \in CostLines : l.mode_id = "b" /\ l.src_mode = "b" },
     time_period_duration : {1},
     weights : WeightsChoices,
     use_fares : {FALSE}]
    \cup
    [transit_volume : ScenarioVolumes,
     capacity : {100},
     line : {ScenarioLine},
     time_period_duration : {1, 60},
     weights : {TypicalWeights},
     use_fares : {FALSE}]

\* the calls of the congestion cost: use_fares is substituted as well
CongestedCalls ==
    [transit_volume : (0 - 1)..MaxPax,
     capacity : 0..(MaxPax - 1),
     line : { l \in CostLines : l.mode_id # "p" \/ l.src_mode # "p" },
     time_period_duration : {1},
     weights : {TypicalWeights, CheapStandingWeights},
     use_fares : BOOLEAN]
    \cup
    [transit_volume : ScenarioVolumes,
     capacity : {100},
     line : {ScenarioLine},
     time_period_duration : {1, 60},
     weights : {TypicalWeights},
     use_fares : {FALSE}]

\* the local crowded_cost is not bound before the blend is computed
NoBlend == [computed |-> FALSE, value |-> RatInt(0)]

NoSplit == [seated_pax |-> RatInt(0), standing_pax |-> RatInt(0),
            computed |-> FALSE]

\* mode_char = line["#src_mode"] if use_fares else line.mode.mode_id
mode_char(args) ==
    IF args.use_fares THEN args.line.src_mode ELSE args.line.mode_id

\* the seated / standing split of a call (line.headway # 0)
SplitOf(args) ==
    LET cap == seated_capacity(args.line, args.time_period_duration)
        seated == seated_pax(args.transit_volume, cap)
    IN [seated_pax |-> seated,
        standing_pax |-> standing_pax(args.transit_volume, seated),
        computed |-> TRUE]

CostInit ==
    /\ cost_fn \in {"crowded", "congested"}
    /\ cost_args \in IF cost_fn = "crowded" THEN CrowdedCalls
                     ELSE CongestedCalls
    /\ line_bound = FALSE
    /\ split = NoSplit
    /\ blended_cost = NoBlend
    /\ cost_out = NoOutcome
    /\ cpc = "call"

CostIdle ==
    /\ cost_fn = "none"
    /\ cost_args = [transit_volume |-> 0, capacity |-> 0,
                    line |-> ScenarioLine, time_period_duration |-> 1,
                    weights |-> TypicalWeights, use_fares |-> FALSE]
    /\ line_bound = FALSE
    /\ split = NoSplit
    /\ blended_cost = NoBlend
    /\ cost_out = NoOutcome
    /\ cpc = "idle"

\* faulty variant of CostReturnZero: the line is read before the volume test
CostReturnZeroAfterLine ==
    /\ cpc = "call"
    /\ \/ cost_fn = "crowded" /\ cost_args.transit_volume = 0
       \/ cost_fn = "congested" /\ cost_args.transit_volume <= 0
    /\ line_bound' = TRUE
    /\ cost_out' = Value(RatInt(0))
    /\ cpc' = "done"
    /\ UNCHANGED <<cost_fn, cost_args, split, blended_cost>>
    /\ UNCHANGED <<jl_vars, run_vars, fn_vars, eawt_vars, pass_vars,
                   journey_vars>>

\* if transit_volume == 0: return 0.0     (crowding cost)
\* if transit_volume <= 0: return 0.0     (congestion cost)
CostReturnZero ==
    /\ cpc = "call"
    /\ \/ cost_fn = "crowded" /\ cost_args.transit_volume = 0
       \/ cost_fn = "congested" /\ cost_args.transit_volume <= 0
    /\ cost_out' = Value(RatInt(0))
    /\ cpc' = "done"
    /\ UNCHANGED <<cost_fn, cost_args, line_bound, split, blended_cost>>
    /\ UNCHANGED <<jl_vars, run_vars, fn_vars, eawt_vars, pass_vars,
                   journey_vars>>

\* line = segment.line
CostReadLine ==
    /\ cpc = "call"
    /\ \/ cost_fn = "crowded" /\ cost_args.transit_volume # 0
       \/ cost_fn = "congested" /\ cost_args.transit_volume > 0
    /\ line_bound' = TRUE
    /\ cpc' = "line"
    /\ UNCHANGED <<cost_fn, cost_args, split, blended_cost, cost_out>>
    /\ UNCHANGED <<jl_vars, run_vars, fn_vars, eawt_vars, pass_vars,
                   journey_vars>>

\* if mode_char in ["p"]: congestion = 0.25 * ((transit_volume / capacity) ** 8)
CongestedPnr ==
    /\ cpc = "line"
    /\ cost_fn = "congested"
    /\ mode_char(cost_args) = "p"
    /\ IF cost_args.capacity = 0
       THEN /\ cost_out' = Raised("ZeroDivisionError")
            /\ cpc' = "error"
       ELSE /\ cost_out' = Value(pnr_congestion(cost_args.transit_volume,
                                                cost_args.capacity))
            /\ cpc' = "done"
    /\ UNCHANGED <<cost_fn, cost_args, line_bound, split, blended_cost>>
    /\ UNCHANGED <<jl_vars, run_vars, fn_vars, eawt_vars, pass_vars,
                   journey_vars>>

\* seated_capacity, seated_pax and standing_pax
CostSplit ==
    /\ cpc = "line"
    /\ cost_fn = "congested" => mode_char(cost_args) # "p"
    /\ cost_args.line.headway # 0
    /\ split' = SplitOf(cost_args)
    /\ cpc' = "split"
    /\ UNCHANGED <<cost_fn, cost_args, line_bound, blended_cost, cost_out>>
    /\ UNCHANGED <<jl_vars, run_vars, fn_vars, eawt_vars, pass_vars,
                   journey_vars>>

\* ... * 60 / line.headway with line.headway == 0
CostSplitZeroDivision ==
    /\ cpc = "line"
    /\ cost_fn = "congested" => mode_char(cost_args) # "p"
    /\ cost_args.line.headway = 0
    /\ cost_out' = Raised("ZeroDivisionError")
    /\ cpc' = "error"
    /\ UNCHANGED <<cost_fn, cost_args, line_bound, split, blended_cost>>
    /\ UNCHANGED <<jl_vars, run_vars, fn_vars, eawt_vars, pass_vars,
                   journey_vars>>

\* seated_cost, standing_cost, crowded_cost and the value returned
CostBlend ==
    /\ cpc = "split"
    /\ cost_args.capacity # 0
    /\ cost_out' =
          IF cost_fn = "crowded"
          THEN Value(normalized_crowded_cost(
                   cost_args.weights, cost_args.transit_volume,
                   cost_args.capacity, split))
          ELSE Value(congestion(
                   cost_args.weights, cost_args.transit_volume,
                   cost_args.capacity, split))
    /\ blended_cost' =
          [computed |-> TRUE,
           value |-> IF cost_fn = "crowded"
                     THEN crowded_cost(
                              cost_args.weights, cost_args.transit_volume,
                              cost_args.capacity, split)
                     ELSE congested_crowded_cost(
                              cost_args.weights, cost_args.transit_volume,
                              cost_args.capacity, split)]
    /\ cpc' = "done"
    /\ UNCHANGED <<cost_fn, cost_args, line_bound, split>>
    /\ UNCHANGED <<jl_vars, run_vars, fn_vars, eawt_vars, pass_vars,
                   journey_vars>>

\* (transit_volume / capacity) with capacity == 0
CostBlendZeroDivision ==
    /\ cpc = "split"
    /\ cost_args.capacity = 0
    /\ cost_out' = Raised("ZeroDivisionError")
    /\ cpc' = "error"
    /\ UNCHANGED <<cost_fn, cost_args, line_bound, split, blended_cost>>
    /\ UNCHANGED <<jl_vars, run_vars, fn_vars, eawt_vars, pass_vars,
                   journey_vars>>

CostNext ==
    \/ CostReturnZero
    \/ CostReadLine
    \/ CongestedPnr
    \/ CostSplit
    \/ CostSplitZeroDivision
    \/ CostBlend
    \/ CostBlendZeroDivision

(***************************************************************************)
(* calc_total_offs, calc_offs_thru_segment and calc_extra_wait_time.       *)
(* Volumes, boardings and capacities are held in units of 1/PaxUnit        *)
(* passenger, headways in hundredths of a minute; the returned wait time   *)
(* is an exact fraction of a minute.                                       *)
(***************************************************************************)
\* units per passenger: 0.001 passengers are 2 units
PaxUnit == 2000
\* total_offs >= 0.001
total_offs_threshold == 2
\* ... else 9999 (passengers)
total_offs_sentinel == 9999 * PaxUnit
\* segment.line.headway >= 0.1
headway_threshold == 10
\* ... else 9999 (minutes)
headway_sentinel == 999900

\* self.config.eawt_weights
EawtWeights ==
    [constant |-> Rat(1, 4), weight_inverse_headway |-> Rat(3, 2),
     vcr |-> Rat(1, 2), exit_proportion |-> Rat(1, 2)]

\* _mode_config = {mode_config.mode_id: mode_config for mode_config in modes}
ModeConfigKeys == { ConfigModes[i].mode_id : i \in DOMAIN ConfigModes }

\* mode_config[key]["eawt_factor"] for a configured mode
eawt_factor_of(key) == IF key = "b" THEN Rat(3, 2) ELSE RatInt(1)

\* the segments of a line, hidden last segment included: segments(True)
PaxValues == {0, 1, PaxUnit}
VolumeValues == {0, PaxUnit}
EawtSegments ==
    [transit_volume : VolumeValues, transit_boardings : PaxValues]
SegmentsPerLine == 3
EawtLines ==
    [headway : {0, 5, 1000},
     segments : [1..SegmentsPerLine -> EawtSegments],
     src_mode : {"", "b", "z"},
     mode_id : {"b"}]
    \cup
    [headway : {0, 5, 1000},
     segments : [1..SegmentsPerLine -> EawtSegments],
     src_mode : {"b"},
     mode_id : {"", "z"}]

RECURSIVE SumSeq(_)
SumSeq(q) == IF q = <<>> THEN 0 ELSE Head(q) + SumSeq(Tail(q))

\* faulty variant of calc_total_offs: no sentinel for an empty line
calc_total_offs_no_sentinel(line) ==
    SumSeq([k \in DOMAIN line.segments |->
                line.segments[k].transit_boardings])

\* offs = [seg.transit_boardings for seg in line.segments(True)]
\* return total_offs if total_offs >= 0.001 else 9999
calc_total_offs(line) ==
    LET total_offs == SumSeq([k \in DOMAIN line.segments |->
                                 line.segments[k].transit_boardings])
    IN IF total_offs >= total_offs_threshold THEN total_offs
       ELSE total_offs_sentinel

\* faulty variant of calc_offs_thru_segment: the segments are not sliced
calc_offs_thru_segment_whole_line(segment) ==
    LET segs == segment.line.segments
    IN SumSeq([k \in 1..(Len(segs) - 1) |->
                  segs[k].transit_volume - segs[k + 1].transit_volume
                  + segs[k + 1].transit_boardings])

\* faulty variant of calc_offs_thru_segment: the slice stops one segment
\* short ([: segment.number])
calc_offs_thru_segment_short(segment) ==
    LET segs == SubSeq(segment.line.segments, 1, segment.number)
    IN SumSeq([k \in 1..(Len(segs) - 1) |->
                  segs[k].transit_volume - segs[k + 1].transit_volume
                  + segs[k + 1].transit_boardings])

\* segments_thru_this_segment = line.segments(True)[: segment.number + 1]
\* sum(prev.transit_volume - this.transit_volume + this.transit_boardings)
calc_offs_thru_segment(segment) ==
    LET segs == SubSeq(segment.line.segments, 1, segment.number + 1)
    IN SumSeq([k \in 1..(Len(segs) - 1) |->
                  segs[k].transit_volume - segs[k + 1].transit_volume
                  + segs[k + 1].transit_boardings])

\* _headway = segment.line.headway if segment.line.headway >= 0.1 else 9999
eawt_headway(line) ==
    IF line.headway >= headway_threshold THEN line.headway
    ELSE headway_sentinel

\* the key of the factor lookup: line["#src_mode"] with fares, else mode.id
mode_key(line, fares) == IF fares THEN line.src_mode ELSE line.mode_id

\* eawt_weights.exit_proportion * (_offs_thru_segment / _total_offs);
\* the division raises when _total_offs is 0
exit_proportion_term(segment) ==
    IF calc_total_offs(segment.line) = 0
    THEN Raised("ZeroDivisionError")
    ELSE Value(RatMul(EawtWeights.exit_proportion,
                      RatNorm(calc_offs_thru_segment(segment),
                              calc_total_offs(segment.line))))

\* the sum eawt of calc_extra_wait_time (segment_capacity # 0, exit term
\* defined); segment_capacity is a fraction of capacity units
eawt_sum(segment, segment_capacity) ==
    LET this == segment.line.segments[segment.number + 1]
    IN RatAdd(RatAdd(RatAdd(
           EawtWeights.constant,
           RatMul(EawtWeights.weight_inverse_headway,
                  RatNorm(100, eawt_headway(segment.line)))),
           RatMul(EawtWeights.vcr,
                  RatDiv(RatInt(this.transit_volume), segment_capacity))),
           exit_proportion_term(segment).value)

\* faulty variant of eawt_factor: a key absent from mode_config gets factor 1
eawt_factor_defaulting(line, fares) ==
    IF mode_key(line, fares) = "" THEN Value(RatInt(1))
    ELSE IF mode_key(line, fares) \in ModeConfigKeys
    THEN Value(eawt_factor_of(mode_key(line, fares)))
    ELSE Value(RatInt(1))

\* eawt_factor = 1 if key == "" else mode_config[key]["eawt_factor"]
eawt_factor(line, fares) ==
    IF mode_key(line, fares) = "" THEN Value(RatInt(1))
    ELSE IF mode_key(line, fares) \in ModeConfigKeys
    THEN Value(eawt_factor_of(mode_key(line, fares)))
    ELSE Raised("KeyError")

\* calc_extra_wait_time(segment, segment_capacity, eawt_weights, mode_config,
\* use_fares): the terms of eawt are evaluated left to right, then the factor
calc_extra_wait_time(segment, segment_capacity, fares) ==
    IF segment_capacity.n = 0
    THEN Raised("ZeroDivisionError")
    ELSE IF exit_proportion_term(segment).kind = "raised"
    THEN exit_proportion_term(segment)
    ELSE IF eawt_factor(segment.line, fares).kind = "raised"
    THEN eawt_factor(segment.line, fares)
    ELSE Value(RatMul(eawt_sum(segment, segment_capacity),
                      eawt_factor(segment.line, fares).value))

\* the calls drawn: any segment of any line, with a zero or a one-passenger
\* segment capacity, with and without fares
EawtCalls ==
    [segment : [number : 0..(SegmentsPerLine - 1), line : EawtLines],
     segment_capacity : {RatInt(0), RatInt(PaxUnit)},
     use_fares : BOOLEAN]

EawtInit ==
    /\ eawt_args \in EawtCalls
    /\ eawt_out = NoOutcome
    /\ epc = "call"

EawtIdle ==
    /\ eawt_args = [segment |-> [number |-> 0, line |-> "none"],
                    segment_capacity |-> RatInt(0),
                    use_fares |-> FALSE]
    /\ eawt_out = NoOutcome
    /\ epc = "idle"

\* calc_extra_wait_time returns eawt * eawt_factor
EawtReturn ==
    /\ epc = "call"
    /\ calc_extra_wait_time(eawt_args.segment, eawt_args.segment_capacity,
                            eawt_args.use_fares).kind = "value"
    /\ eawt_out' = calc_extra_wait_time(eawt_args.segment,
                                        eawt_args.segment_capacity,
                                        eawt_args.use_fares)
    /\ epc' = "done"
    /\ UNCHANGED eawt_args
    /\ UNCHANGED <<jl_vars, run_vars, fn_vars, cost_vars, pass_vars,
                   journey_vars>>

\* a division of the eawt sum raises
EawtZeroDivision ==
    /\ epc = "call"
    /\ calc_extra_wait_time(eawt_args.segment, eawt_args.segment_capacity,
                            eawt_args.use_fares) = Raised("ZeroDivisionError")
    /\ eawt_out' = Raised("ZeroDivisionError")
    /\ epc' = "error"
    /\ UNCHANGED eawt_args
    /\ UNCHANGED <<jl_vars, run_vars, fn_vars, cost_vars, pass_vars,
                   journey_vars>>

\* mode_config[key] raises for a key that is not configured
EawtKeyError ==
    /\ epc = "call"
    /\ calc_extra_wait_time(eawt_args.segment, eawt_args.segment_capacity,
                            eawt_args.use_fares) = Raised("KeyError")
    /\ eawt_out' = Raised("KeyError")
    /\ epc' = "error"
    /\ UNCHANGED eawt_args
    /\ UNCHANGED <<jl_vars, run_vars, fn_vars, cost_vars, pass_vars,
                   journey_vars>>

EawtNext ==
    \/ EawtReturn
    \/ EawtZeroDivision
    \/ EawtKeyError

(***************************************************************************)
(* TransitAssignment._calc_segment_ccr_penalties: one pass over the lines  *)
(* and segments of the in-memory network of a period.  The network's       *)
(* iterators may deliver lines and segments in any order.                  *)
(***************************************************************************)
\* number of transit lines of the network
NumLines == 2
\* _duration = self.time_period_durations[time_period.lower()]
PassDuration == 1
\* _hdwy_fraction = 0.5
hdwy_fraction == Rat(1, 2)

PassSegment(v, b, ph) ==
    [transit_volume |-> v, transit_boardings |-> b, phdwy |-> ph]

\* a line with one loaded segment and its hidden last segment
BaseLine ==
    [headway |-> 1000, total_capacity |-> 1, mode_id |-> "b",
     src_mode |-> "b",
     segments |-> << PassSegment(PaxUnit, PaxUnit, 1500),
                     PassSegment(0, 0, 0) >>]

\* the lines drawn: the base line and the lines differing from it in one
\* attribute (longer headway, headway 0, no capacity, unconfigured mode id,
\* no riders)
PassLines ==
    { BaseLine,
      [BaseLine EXCEPT !.headway = 2000],
      [BaseLine EXCEPT !.headway = 0],
      [BaseLine EXCEPT !.total_capacity = 0],
      [BaseLine EXCEPT !.mode_id = "z"],
      [BaseLine EXCEPT !.segments[1] = PassSegment(0, 0, 1500)] }

LineIds == 1..NumLines
SegIds(l) == DOMAIN l.line.segments

\* a line of the in-memory network: its snapshot and the attributes the pass
\* creates and writes
NetLine(l) ==
    [line |-> l,
     capacity |-> NoOutcome,
     eawt |-> [j \in DOMAIN l.segments |-> NoOutcome],
     capacity_penalty |-> [j \in DOMAIN l.segments |-> NoOutcome]]

\* time_period_capacity(vehicle_capacity, headway, time_period_duration):
\* vehicle_capacity * time_period_duration * 60 / headway   (headway # 0)
time_period_capacity(vehicle_capacity, headway, time_period_duration) ==
    RatNorm(vehicle_capacity * PaxUnit * time_period_duration * 60 * 100,
            headway)

\* max(segment["@phdwy"] - segment["@eawt"] - segment.line.headway, 0)
\*     * _hdwy_fraction
capacity_penalty(segment, eawt, line) ==
    RatMul(RatMax(RatSub(RatSub(Rat(segment.phdwy, 100), eawt),
                         Rat(line.headway, 100)),
                  RatInt(0)),
           hdwy_fraction)

\* the attributes saved in the scenario before the pass
NoAttributes == [i \in LineIds |-> "none"]

PassInit ==
    /\ pass_use_fares \in BOOLEAN
    /\ network \in [LineIds -> { NetLine(l) : l \in PassLines }]
    /\ scenario = NoAttributes
    /\ pass_out = NoOutcome
    /\ ppc = "capacities"

PassIdle ==
    /\ pass_use_fares = FALSE
    /\ network = <<>>
    /\ scenario = <<>>
    /\ pass_out = NoOutcome
    /\ ppc = "idle"

\* for line in _network.transit_lines(): line.capacity = time_period_capacity(...)
PassSetCapacity(i) ==
    /\ ppc = "capacities"
    /\ network[i].capacity = NoOutcome
    /\ network[i].line.headway # 0
    /\ network' = [network EXCEPT ![i].capacity =
           Value(time_period_capacity(network[i].line.total_capacity,
                                      network[i].line.headway,
                                      PassDuration))]
    /\ UNCHANGED <<pass_use_fares, scenario, pass_out, ppc>>
    /\ UNCHANGED <<jl_vars, run_vars, fn_vars, cost_vars, eawt_vars,
                   journey_vars>>

\* time_period_capacity divides by line.headway == 0
PassCapacityZeroDivision(i) ==
    /\ ppc = "capacities"
    /\ network[i].capacity = NoOutcome
    /\ network[i].line.headway = 0
    /\ pass_out' = Raised("ZeroDivisionError")
    /\ ppc' = "error"
    /\ UNCHANGED <<pass_use_fares, network, scenario>>
    /\ UNCHANGED <<jl_vars, run_vars, fn_vars, cost_vars, eawt_vars,
                   journey_vars>>

\* faulty variant of PassCapacitiesDone: the segment loop starts as soon as
\* one line has its capacity
PassCapacitiesDoneEarly ==
    /\ ppc = "capacities"
    /\ \E i \in LineIds : network[i].capacity # NoOutcome
    /\ ppc' = "segments"
    /\ UNCHANGED <<pass_use_fares, network, scenario, pass_out>>
    /\ UNCHANGED <<jl_vars, run_vars, fn_vars, cost_vars, eawt_vars,
                   journey_vars>>

\* the loop over the lines ends
PassCapacitiesDone ==
    /\ ppc = "capacities"
    /\ \A i \in LineIds : network[i].capacity # NoOutcome
    /\ ppc' = "segments"
    /\ UNCHANGED <<pass_use_fares, network, scenario, pass_out>>
    /\ UNCHANGED <<jl_vars, run_vars, fn_vars, cost_vars, eawt_vars,
                   journey_vars>>

\* the segment handed to calc_extra_wait_time
SegmentRef(i, j) == [number |-> j - 1, line |-> network[i].line]

\* calc_extra_wait_time(segment, segment.line.capacity, ...); a line whose
\* capacity attribute was never set holds None and the division raises
\* TypeError
SegmentEawt(i, j) ==
    IF network[i].capacity.kind # "value"
    THEN Raised("TypeError")
    ELSE calc_extra_wait_time(SegmentRef(i, j), network[i].capacity.value,
                              pass_use_fares)

\* for segment in _network.transit_segments(): @eawt and @capacity_penalty
PassSegmentValues(i, j) ==
    /\ ppc = "segments"
    /\ network[i].eawt[j] = NoOutcome
    /\ SegmentEawt(i, j).kind = "value"
    /\ network' = [network EXCEPT
           ![i].eawt[j] = SegmentEawt(i, j),
           ![i].capacity_penalty[j] =
               Value(capacity_penalty(network[i].line.segments[j],
                                      SegmentEawt(i, j).value,
                                      network[i].line))]
    /\ UNCHANGED <<pass_use_fares, scenario, pass_out, ppc>>
    /\ UNCHANGED <<jl_vars, run_vars, fn_vars, cost_vars, eawt_vars,
                   journey_vars>>

\* calc_extra_wait_time raises: the pass ends without saving anything
PassSegmentRaise(i, j) ==
    /\ ppc = "segments"
    /\ network[i].eawt[j] = NoOutcome
    /\ SegmentEawt(i, j).kind = "raised"
    /\ pass_out' = SegmentEawt(i, j)
    /\ ppc' = "error"
    /\ UNCHANGED <<pass_use_fares, network, scenario>>
    /\ UNCHANGED <<jl_vars, run_vars, fn_vars, cost_vars, eawt_vars,
                   journey_vars>>

\* copy_attribute_values(_network, _emme_scenario, _ccr_attributes)
PassCopyBack ==
    /\ ppc = "segments"
    /\ \A i \in LineIds : \A j \in SegIds(network[i]) :
          network[i].eawt[j] # NoOutcome
    /\ scenario' = [i \in LineIds |->
                       [eawt |-> network[i].eawt,
                        capacity_penalty |-> network[i].capacity_penalty]]
    /\ ppc' = "done"
    /\ UNCHANGED <<pass_use_fares, network, pass_out>>
    /\ UNCHANGED <<jl_vars, run_vars, fn_vars, cost_vars, eawt_vars,
                   journey_vars>>

PassNext ==
    \/ \E i \in LineIds : PassSetCapacity(i)
    \/ \E i \in LineIds : PassCapacityZeroDivision(i)
    \/ PassCapacitiesDone
    \/ \E i \in LineIds : \E j \in SegIds(network[i]) : PassSegmentValues(i, j)
    \/ \E i \in LineIds : \E j \in SegIds(network[i]) : PassSegmentRaise(i, j)
    \/ PassCopyBack

(***************************************************************************)
(* A journey through a built automaton.  The external engine keeps a       *)
(* journey in one level; taking a mode moves it to the next_journey_level  *)
(* of that level's rule for the mode, and a journey may end only in a      *)
(* level whose destinations_reachable is set.                              *)
(***************************************************************************)
\* new_journey_levels of the branch taken for a class name
LevelsOf(class_name, jl) ==
    CASE class_name = "PNR_TRN_WLK" -> PNR_TRN_WLK_levels(jl)
      [] class_name = "WLK_TRN_PNR" -> WLK_TRN_PNR_levels(jl)
      [] class_name = "KNR_TRN_WLK" -> KNR_TRN_WLK_levels(jl)
      [] class_name = "WLK_TRN_KNR" -> WLK_TRN_KNR_levels(jl)
      [] OTHER -> WLK_TRN_WLK_levels(jl)

\* the mode_types of the class configuration each class is run with
ModeTypesOf(class_name) ==
    CASE class_name \in {"PNR_TRN_WLK", "WLK_TRN_PNR"} ->
             {"WALK", "EGRESS", "DRIVE", "PNR_dummy", "LOCAL"}
      [] class_name \in {"KNR_TRN_WLK", "WLK_TRN_KNR"} ->
             {"WALK", "ACCESS", "DRIVE", "KNR_dummy", "LOCAL"}
      [] OTHER -> {"WALK", "ACCESS", "EGRESS", "LOCAL"}

\* the drive-access classes whose automata the journeys are followed through
JourneyClasses == {"PNR_TRN_WLK", "WLK_TRN_PNR", "KNR_TRN_WLK", "WLK_TRN_KNR"}

\* the state _journey_levels leaves behind for a fares-enabled class built
\* from a template of at least one level, and a journey at level 0
JourneyInit ==
    /\ name \in JourneyClasses
    /\ use_fares = TRUE
    /\ mode_types = ModeTypesOf(name)
    /\ template_file \in UNION { Templates(n) : n \in 1..MaxLevels }
    /\ template_loaded = TRUE
    /\ journey_levels = template_file
    /\ new_journey_levels = LevelsOf(name, template_file)
    /\ njl_bound = TRUE
    /\ artifact = [state |-> "written",
                   levels |-> LevelsOf(name, template_file)]
    /\ returned = LevelsOf(name, template_file)
    /\ jpc = "done"
    /\ jlevel = 0
    /\ used_transit = FALSE
    /\ walked_before_transit = FALSE
    /\ drove_after_transit = FALSE

JourneyIdle ==
    /\ jlevel = 0
    /\ used_transit = FALSE
    /\ walked_before_transit = FALSE
    /\ drove_after_transit = FALSE

\* the mode characters of the template, of the walk legs and of the drive legs
TransitModeChars == { TemplateModes[k] : k \in DOMAIN TemplateModes }
WalkModeChars == {"w", "e"}
DriveModeChars == {"D", "p", "k"}

\* the journey takes mode m: the rule of the current level for m gives the
\* next level
JourneyTake(m) ==
    /\ jpc = "done"
    /\ \E k \in DOMAIN returned[jlevel + 1].transition_rules :
          /\ returned[jlevel + 1].transition_rules[k].mode = m
          /\ jlevel' =
                returned[jlevel + 1].transition_rules[k].next_journey_level
    /\ used_transit' = (used_transit \/ m \in TransitModeChars)
    /\ walked_before_transit' =
          (walked_before_transit \/ (m \in WalkModeChars /\ ~used_transit))
    /\ drove_after_transit' =
          (drove_after_transit \/ (m \in DriveModeChars /\ used_transit))
    /\ UNCHANGED <<jl_vars, run_vars, fn_vars, cost_vars, eawt_vars,
                   pass_vars>>

JourneyNext ==
    \E m \in AllModeChars : JourneyTake(m)

(***************************************************************************)
(* Specifications                                                          *)
(***************************************************************************)
\* the journey-level builder of one (time period, class)
InitJL ==
    /\ JLInit
    /\ RunIdle
    /\ FnIdle
    /\ CostIdle
    /\ EawtIdle
    /\ PassIdle
    /\ JourneyIdle

SpecJL == InitJL /\ [][JLNext]_vars

\* the controller calling TransitAssignment.run once per outer iteration
InitRun ==
    /\ JLIdle
    /\ RunInit
    /\ FnIdle
    /\ CostIdle
    /\ EawtIdle
    /\ PassIdle
    /\ JourneyIdle

SpecRun == InitRun /\ [][RunNext]_vars

\* the segment functions applied to drawn inputs
InitFn ==
    /\ JLIdle
    /\ RunIdle
    /\ FnInit
    /\ CostIdle
    /\ EawtIdle
    /\ PassIdle
    /\ JourneyIdle

SpecFn == InitFn /\ [][FnNext]_vars

\* the engine calling a generated calc_segment_cost on one segment
InitCost ==
    /\ JLIdle
    /\ RunIdle
    /\ FnIdle
    /\ CostInit
    /\ EawtIdle
    /\ PassIdle
    /\ JourneyIdle

SpecCost == InitCost /\ [][CostNext]_vars

\* one call of calc_extra_wait_time
InitEawt ==
    /\ JLIdle
    /\ RunIdle
    /\ FnIdle
    /\ CostIdle
    /\ EawtInit
    /\ PassIdle
    /\ JourneyIdle

SpecEawt == InitEawt /\ [][EawtNext]_vars

\* one penalty recomputation pass over a network
InitPass ==
    /\ JLIdle
    /\ RunIdle
    /\ FnIdle
    /\ CostIdle
    /\ EawtIdle
    /\ PassInit
    /\ JourneyIdle

SpecPass == InitPass /\ [][PassNext]_vars

\* a journey followed through the automaton built for a drive-access class
InitJourney ==
    /\ JourneyInit
    /\ RunIdle
    /\ FnIdle
    /\ CostIdle
    /\ EawtIdle
    /\ PassIdle

SpecJourney == InitJourney /\ [][JourneyNext]_vars

(***************************************************************************)
(* Properties of the journey-level builder (checked under SpecJL)          *)
(***************************************************************************)
AccessNames == {"PNR_TRN_WLK", "WLK_TRN_PNR", "KNR_TRN_WLK", "WLK_TRN_KNR"}

\* the automaton has been built and handed to the caller
Built == jpc = "done"

\* number of levels of the template on disk
TemplateN == Len(template_file)

\* the rule targets of a level, and the number of its rules for a mode
Targets(level) ==
    { level.transition_rules[k].next_journey_level :
        k \in DOMAIN level.transition_rules }
RuleCount(level, m) ==
    Cardinality({ k \in DOMAIN level.transition_rules :
                    level.transition_rules[k].mode = m })

\* level i (0-based) of a list is absorbing: all its rules target itself
Absorbing(levels, i) == Targets(levels[i + 1]) \subseteq {i}
AbsorbingLevels(levels) ==
    { i \in 0..(Len(levels) - 1) : Absorbing(levels, i) }
ProhibitLevels(levels) ==
    { i \in 0..(Len(levels) - 1) : levels[i + 1].description = "prohibit" }

\* every mode of ms has a rule in every level
Complete(levels, ms) ==
    \A i \in DOMAIN levels : \A m \in ms : RuleCount(levels[i], m) >= 1

\* C1: in every automaton the builder returns, every next_journey_level of
\* every rule of every level is an index 0..len(levels)-1 of the final list
C1_TargetsValid ==
    Built =>
        \A i \in DOMAIN returned :
            Targets(returned[i]) \subseteq 0..(Len(returned) - 1)

\* PNR_TRN_WLK built from a full-size template one of whose rules targets
\* the last template level: after renumbering it targets index N+1
C1_Witness ==
    /\ Built
    /\ use_fares
    /\ name = "PNR_TRN_WLK"
    /\ TemplateN = MaxLevels
    /\ template_file[1].transition_rules[1].next_journey_level = TemplateN
    /\ returned[3].transition_rules[1].next_journey_level = TemplateN + 1

\* C2: each access variant built from N >= 1 template levels has N+3 levels,
\* exactly one of them described "prohibit", which is the last (index N+2),
\* is not destinations-reachable and has every rule targeting N+2
C2_ProhibitLast ==
    (Built /\ use_fares /\ name \in AccessNames) =>
        /\ TemplateN >= 1
        /\ Len(returned) = TemplateN + 3
        /\ ProhibitLevels(returned) = {TemplateN + 2}
        /\ ~returned[TemplateN + 3].destinations_reachable
        /\ Targets(returned[TemplateN + 3]) = {TemplateN + 2}

C2_Witness ==
    /\ Built
    /\ use_fares
    /\ name = "WLK_TRN_KNR"
    /\ TemplateN = 2
    /\ returned[5].description = "prohibit"

\* the mode characters an access variant appends to every level
AppendedModes ==
    CASE name = "PNR_TRN_WLK" -> {"e", "D", "w", "p"}
      [] name = "WLK_TRN_PNR" -> {"a", "D", "w", "p"}
      [] name = "KNR_TRN_WLK" -> {"e", "D", "w", "k"}
      [] name = "WLK_TRN_KNR" -> {"a", "D", "w", "k"}
      [] OTHER -> {}

\* the modes the builder writes rules for
RoutedModes ==
    IF use_fares
    THEN { TemplateModes[k] : k \in DOMAIN TemplateModes } \cup AppendedModes
    ELSE _transit_modes

\* C3 as stated: every mode of the class's allowed-mode set (_modes) has
\* exactly one rule in every level of the final list
C3_Original ==
    Built =>
        \A i \in DOMAIN returned :
            \A m \in _modes : RuleCount(returned[i], m) = 1

\* C3 amended: every level carries exactly one rule for each mode the builder
\* routes (without fares the class's transit modes; with fares the template's
\* modes plus the four characters the access variant appends) and no rule for
\* any other mode, so a mode of _modes outside that set is unrouted
C3_RoutedExactlyOnce ==
    Built =>
        \A i \in DOMAIN returned :
            \A m \in AllModeChars :
                RuleCount(returned[i], m) = IF m \in RoutedModes THEN 1 ELSE 0

\* a kiss-and-ride class that also allows the access mode a: a is in _modes
\* and has no rule, while k has exactly one
C3_Witness ==
    /\ Built
    /\ use_fares
    /\ name = "KNR_TRN_WLK"
    /\ "a" \in _modes
    /\ "k" \in _modes
    /\ RuleCount(returned[2], "a") = 0
    /\ RuleCount(returned[2], "k") = 1

\* C4 as stated: every automaton has exactly one absorbing level and it is
\* the "prohibit" level
C4_Original ==
    Built =>
        /\ Cardinality(AbsorbingLevels(returned)) = 1
        /\ AbsorbingLevels(returned) = ProhibitLevels(returned)

\* C4 amended: in the four access variants the only absorbing level is the
\* "prohibit" level; the WLK_TRN_WLK and no-fares automata have no "prohibit"
\* level, and without fares level 1 (the in-transit level) is absorbing
C4_TrapUniqueInAccessVariants ==
    Built =>
        /\ (use_fares /\ name \in AccessNames) =>
              /\ AbsorbingLevels(returned) = {Len(returned) - 1}
              /\ ProhibitLevels(returned) = {Len(returned) - 1}
        /\ ~(use_fares /\ name \in AccessNames) =>
              ProhibitLevels(returned) = {}
        /\ ~use_fares => 1 \in AbsorbingLevels(returned)

\* a return variant whose first template level loops on itself for every
\* template mode: the appended rules keep it from being absorbing
C4_Witness ==
    /\ Built
    /\ use_fares
    /\ name = "WLK_TRN_PNR"
    /\ TemplateN = 2
    /\ Targets(template_file[1]) = {1}
    /\ AbsorbingLevels(returned) = {4}

\* C5 as stated: an automaton in which some mode of the class has no rule in
\* some level is never returned and never persisted
C5_Original ==
    /\ jpc \in {"return", "done"} => Complete(new_journey_levels, _modes)
    /\ artifact.state = "written" => Complete(artifact.levels, _modes)

\* C5 amended: the construction makes no completeness check; it ends in an
\* error only on an empty template or (with fares) an unknown class name,
\* otherwise it goes on to return the list it built and, with fares, to
\* persist exactly that list
C5_NoCompletenessCheck ==
    /\ jpc = "error" =>
          use_fares /\ (TemplateN = 0 \/ name \notin ClassNames)
    /\ jpc \notin {"done", "error"} => ENABLED JLNext
    /\ Built =>
          /\ njl_bound
          /\ returned = new_journey_levels
          /\ use_fares => artifact = [state |-> "written", levels |-> returned]
          /\ ~use_fares => artifact = NoArtifact

\* an incomplete automaton is returned and persisted
C5_Witness ==
    /\ Built
    /\ use_fares
    /\ artifact.state = "written"
    /\ ~Complete(returned, _modes)
    /\ ~Complete(artifact.levels, _modes)

\* the 5-level park-and-ride automaton built from a 2-level template
PnrFromTwoLevels ==
    /\ Built
    /\ use_fares
    /\ name = "PNR_TRN_WLK"
    /\ TemplateN = 2

\* the rules of a level whose target is not level t
RulesNotTo(level, t) ==
    { level.transition_rules[k] :
        k \in { j \in DOMAIN level.transition_rules :
                  level.transition_rules[j].next_journey_level # t } }

PnrShape ==
    /\ Len(returned) = 5
    /\ returned[1].description = "drive access"
    /\ returned[2].description = "pnr"
    /\ returned[3].description = "tmpl"
    /\ returned[4].description = "tmpl"
    /\ returned[5].description = "prohibit"

\* C6 as stated: the drive-access level has exactly one rule whose target is
\* not the prohibit level, and it targets level 1
C6_Original ==
    PnrFromTwoLevels =>
        /\ PnrShape
        /\ Cardinality(RulesNotTo(returned[1], 4)) = 1
        /\ \A r \in RulesNotTo(returned[1], 4) : r.next_journey_level = 1

\* C6 amended: the drive-access level has exactly two rules whose target is
\* not the prohibit level: D, which loops on level 0, and p, which targets
\* level 1
C6_DriveAccessRules ==
    PnrFromTwoLevels =>
        /\ PnrShape
        /\ RulesNotTo(returned[1], 4) = {Rule("D", 0), Rule("p", 1)}

C6_Witness ==
    /\ PnrFromTwoLevels
    /\ Rule("p", 1) \in RulesNotTo(returned[1], 4)

\* the rule lists of a level list
RulesOf(levels) == [i \in DOMAIN levels |-> levels[i].transition_rules]

\* C7 as stated: WLK_TRN_WLK yields a two-level automaton over the class's
\* modes, every rule targeting level 1, without loading the template,
\* whatever the fares setting
C7_Original ==
    (Built /\ name = "WLK_TRN_WLK") =>
        /\ Len(returned) = 2
        /\ \A i \in DOMAIN returned : Targets(returned[i]) \subseteq {1}
        /\ ~template_loaded

\* C7 amended: without fares WLK_TRN_WLK gets the two-level automaton over
\* its transit modes (every rule to level 1, template not loaded); with fares
\* the template is loaded and the result is a "base" level carrying a copy of
\* template level 0's rules followed by the N template levels, rule targets
\* unchanged
C7_WalkAutomaton ==
    (Built /\ name = "WLK_TRN_WLK") =>
        /\ ~use_fares =>
              /\ ~template_loaded
              /\ Len(returned) = 2
              /\ \A i \in DOMAIN returned :
                    /\ Targets(returned[i]) = {1}
                    /\ \A m \in AllModeChars :
                          RuleCount(returned[i], m) =
                              IF m \in _transit_modes THEN 1 ELSE 0
        /\ use_fares =>
              /\ template_loaded
              /\ Len(returned) = TemplateN + 1
              /\ returned[1].description = "base"
              /\ RulesOf(returned) =
                    << template_file[1].transition_rules >>
                    \o RulesOf(template_file)

\* with fares the walk automaton has three levels and a rule not to level 1
C7_Witness ==
    /\ Built
    /\ name = "WLK_TRN_WLK"
    /\ use_fares
    /\ template_loaded
    /\ Len(returned) = 3
    /\ 2 \in Targets(returned[3])

(***************************************************************************)
(* Ordering of assignment and penalty recomputation (checked under SpecRun)*)
(***************************************************************************)
\* C8: in CCR mode a period's penalty recomputation runs only after that
\* period's engine call has returned, and no engine call is active or starts
\* while a recomputation is owed or in progress for any period
C8_PenaltiesBetweenAssignments ==
    /\ engine = "running" =>
          /\ penalty = "idle"
          /\ run_use_ccr => \A p \in Periods : penalised[p] = assigned[p]
    /\ penalty = "running" =>
          /\ engine = "idle"
          /\ run_use_ccr
          /\ assigned[period] = penalised[period] + 1
    /\ run_use_ccr =>
          /\ \A p \in Periods :
                penalised[p] <= assigned[p] /\ assigned[p] <= penalised[p] + 1
          /\ rpc = "dispatch" => \A p \in Periods : penalised[p] = assigned[p]

\* the second outer iteration's CCR assignment of the first period is running
\* after the first iteration's penalties of every period were written
C8_Witness ==
    /\ engine = "running"
    /\ run_use_ccr
    /\ iteration = 1
    /\ period = 1
    /\ \A p \in Periods : penalised[p] = 1 /\ assigned[p] = 1

(***************************************************************************)
(* calc_adjusted_headway (checked under SpecFn)                            *)
(***************************************************************************)
\* C9: the adjusted headway returned is at least the line's nominal headway
C9_AtLeastNominal ==
    fpc = "done" => RatLeq(Rat(seg.headway, 1), hdwy_out)

\* the capped growth of the previous headway is below the nominal headway,
\* so the floor decides the result
C9_Witness ==
    /\ fpc = "done"
    /\ seg.headway > 0
    /\ seg.phdwy > 0
    /\ RatLess(capped_headway(seg), Rat(seg.headway, 1))
    /\ RatEq(hdwy_out, Rat(seg.headway, 1))

\* C10 as stated: the adjusted headway returned is at most 999.98, also for
\* a line whose nominal headway exceeds 999.98
C10_Original ==
    fpc = "done" => RatLeq(hdwy_out, Rat(max_headway, 1))

\* C10 amended: the result is at most 999.98 when the line's nominal headway
\* is at most 999.98; when the nominal headway exceeds 999.98 the result is
\* the nominal headway itself
C10_AtMostCeilingOrNominal ==
    fpc = "done" =>
        /\ seg.headway <= max_headway => RatLeq(hdwy_out, Rat(max_headway, 1))
        /\ seg.headway > max_headway => RatEq(hdwy_out, Rat(seg.headway, 1))

\* the previous headway grown by the factor 1.5 exceeds 999.98 and the
\* ceiling decides the result
C10_Witness ==
    /\ fpc = "done"
    /\ seg.headway < max_headway
    /\ 2 * (seg.transit_boardings + 1) >= 3 * (available_capacity(seg) + 1)
    /\ seg.phdwy * 3 > 2 * max_headway
    /\ RatEq(hdwy_out, Rat(max_headway, 1))

(***************************************************************************)
(* Cost functions (checked under SpecCost)                                 *)
(***************************************************************************)
\* the crowding cost has returned
CrowdedDone == cost_fn = "crowded" /\ cpc = "done"

\* C11: for volume >= 0, capacity > 0 and line headway > 0 the capacitated
\* crowding cost raises nothing and returns a non-negative value, whatever
\* the weights
C11_NonNegative ==
    (/\ cost_fn = "crowded"
     /\ cost_args.transit_volume >= 0
     /\ cost_args.capacity > 0
     /\ cost_args.line.headway > 0) =>
        /\ cpc # "error"
        /\ cpc = "done" =>
              /\ cost_out.kind = "value"
              /\ RatLeq(RatInt(0), cost_out.value)

\* a loaded segment whose blended cost is below 1: the floor at 0 decides
C11_Witness ==
    /\ CrowdedDone
    /\ cost_args.transit_volume > 0
    /\ cost_args.capacity > 0
    /\ RatLess(crowded_cost(cost_args.weights, cost_args.transit_volume,
                            cost_args.capacity, split),
               RatInt(1))
    /\ cost_out = Value(RatInt(0))

\* C12: with volume == 0 the crowding cost, and with volume <= 0 the
\* congestion cost, returns 0 without reading the line and without a
\* division, also when capacity or the line headway is 0
C12_ZeroVolumeShortCircuit ==
    (\/ cost_fn = "crowded" /\ cost_args.transit_volume = 0
     \/ cost_fn = "congested" /\ cost_args.transit_volume <= 0) =>
        /\ cpc \in {"call", "done"}
        /\ ~line_bound
        /\ ~split.computed
        /\ cpc = "done" => cost_out = Value(RatInt(0))

\* an empty segment of a line with headway 0, capacity 0
C12_Witness ==
    /\ CrowdedDone
    /\ cost_args.transit_volume = 0
    /\ cost_args.capacity = 0
    /\ cost_args.line.headway = 0
    /\ cost_out = Value(RatInt(0))

\* the value the crowding cost returns for the call args (capacity # 0,
\* line headway # 0)
CrowdedValue(args) ==
    IF args.transit_volume = 0 THEN RatInt(0)
    ELSE normalized_crowded_cost(args.weights, args.transit_volume,
                                 args.capacity, SplitOf(args))

\* the volumes a call's volume is compared with
ComparedVolumes(args) ==
    IF args.line = ScenarioLine THEN ScenarioVolumes ELSE 0..MaxPax

\* the crowding cost at the call's volume is at most the cost at v2
CostNotAbove(v2) ==
    RatLeq(cost_out.value,
           CrowdedValue([cost_args EXCEPT !.transit_volume = v2]))

RisingWeights(w) ==
    /\ RatLeq(RatInt(0), w.min_seat) /\ RatLeq(w.min_seat, w.max_seat)
    /\ RatLeq(RatInt(0), w.min_stand) /\ RatLeq(w.min_stand, w.max_stand)

\* standing costs at least as much as sitting at volume v
StandingNotCheaper(args, v) ==
    RatLeq(seated_cost(args.weights, v, args.capacity),
           standing_cost(args.weights, v, args.capacity))

ScenarioSplit(v) ==
    /\ cost_fn = "crowded"
    /\ split.computed
    /\ cost_args.line = ScenarioLine
    /\ cost_args.time_period_duration = 60
    /\ cost_args.transit_volume = v

EawtLine == eawt_args.segment.line
EawtCalled == epc # "idle"

\* the sum of the boardings of a line
TotalBoardings(line) ==
    SumSeq([k \in DOMAIN line.segments |->
                line.segments[k].transit_boardings])

\* C16: for a line whose total boardings are below 0.001, all-zero boardings
\* included, calc_total_offs is the sentinel 9999, the exit-proportion term
\* of calc_extra_wait_time divides by it without raising, and a division by
\* zero in the call can only come from a zero segment capacity
C16_SentinelForEmptyLine ==
    (EawtCalled /\ TotalBoardings(EawtLine) < total_offs_threshold) =>
        /\ calc_total_offs(EawtLine) = total_offs_sentinel
        /\ exit_proportion_term(eawt_args.segment).kind = "value"
        /\ eawt_out = Raised("ZeroDivisionError") =>
              eawt_args.segment_capacity.n = 0

\* a call on a line without boardings returns a value whose exit-proportion
\* term is a non-zero multiple of 1/9999
C16_Witness ==
    /\ epc = "done"
    /\ \A k \in DOMAIN EawtLine.segments :
          EawtLine.segments[k].transit_boardings = 0
    /\ calc_offs_thru_segment(eawt_args.segment) # 0
    /\ eawt_out.kind = "value"
    /\ exit_proportion_term(eawt_args.segment) =
          Value(RatMul(EawtWeights.exit_proportion,
                       RatNorm(calc_offs_thru_segment(eawt_args.segment),
                               total_offs_sentinel)))

\* volumes and boardings of a line are consistent: the first segment carries
\* its boardings, every later segment's alightings are non-negative and the
\* last segment carries no volume
Alightings(line, k) ==
    line.segments[k - 1].transit_volume + line.segments[k].transit_boardings
    - line.segments[k].transit_volume
Consistent(line) ==
    /\ line.segments[1].transit_volume = line.segments[1].transit_boardings
    /\ \A k \in 2..Len(line.segments) : Alightings(line, k) >= 0
    /\ line.segments[Len(line.segments)].transit_volume = 0

LastSegment(line) == [number |-> Len(line.segments) - 1, line |-> line]

\* C17: for a consistent line with total boardings of at least 0.001,
\* calc_offs_thru_segment of the last segment is calc_total_offs of the line,
\* so the exit proportion of the last segment is 1
C17_OffsThruLastIsTotal ==
    (/\ EawtCalled
     /\ Consistent(EawtLine)
     /\ TotalBoardings(EawtLine) >= total_offs_threshold) =>
        /\ calc_offs_thru_segment(LastSegment(EawtLine))
               = calc_total_offs(EawtLine)
        /\ eawt_args.segment = LastSegment(EawtLine) =>
              exit_proportion_term(eawt_args.segment)
                  = Value(EawtWeights.exit_proportion)

\* a call on the last segment of a consistent line with riders boarding at
\* two stops and alighting before the end
C17_Witness ==
    /\ epc = "done"
    /\ Consistent(EawtLine)
    /\ eawt_args.segment = LastSegment(EawtLine)
    /\ EawtLine.segments[1].transit_boardings = PaxUnit
    /\ EawtLine.segments[2].transit_boardings = PaxUnit
    /\ EawtLine.segments[2].transit_volume = PaxUnit
    /\ calc_offs_thru_segment(eawt_args.segment) = 2 * PaxUnit

\* the key of the call's factor lookup
EawtKey == mode_key(EawtLine, eawt_args.use_fares)

\* C18: with an empty mode key the factor is 1 (the value returned is the
\* eawt sum itself); with a non-empty key that is not configured the call
\* never returns a value: it raises
C18_FactorLookup ==
    (EawtCalled /\ epc # "call") =>
        /\ EawtKey = "" =>
              /\ eawt_out # Raised("KeyError")
              /\ eawt_out.kind = "value" =>
                    eawt_out.value = eawt_sum(eawt_args.segment,
                                              eawt_args.segment_capacity)
        /\ (EawtKey # "" /\ EawtKey \notin ModeConfigKeys) =>
              /\ epc = "error"
              /\ eawt_out.kind = "raised"
              /\ eawt_args.segment_capacity.n # 0 =>
                    eawt_out = Raised("KeyError")

\* with fares a line whose #src_mode is not a configured mode id
C18_Witness ==
    /\ epc = "error"
    /\ eawt_args.use_fares
    /\ EawtLine.src_mode = "z"
    /\ eawt_out = Raised("KeyError")

(***************************************************************************)
(* The penalty recomputation pass (checked under SpecPass)                 *)
(***************************************************************************)
PassStarted == ppc # "idle"

\* C19 as stated: a line headway below 0.1 is replaced by a floor value
\* wherever the pass uses it, so a ZeroDivisionError of the pass never comes
\* from a line headway: when one is raised every line already has its
\* capacity and the zero divisor was a segment capacity
C19_Original ==
    (PassStarted /\ pass_out = Raised("ZeroDivisionError")) =>
        \A i \in LineIds : network[i].capacity.kind = "value"

\* the values of segment j of a line as a function of the line's snapshot
\* alone: the line capacity from the snapshot, then calc_extra_wait_time
SnapshotEawt(l, j) ==
    calc_extra_wait_time(
        [number |-> j - 1, line |-> l],
        time_period_capacity(l.total_capacity, l.headway, PassDuration),
        pass_use_fares)
SnapshotPenalty(l, j) ==
    Value(capacity_penalty(l.segments[j], SnapshotEawt(l, j).value, l))

\* some segment value has been computed
SomeSegmentDone ==
    \E i \in LineIds : \E j \in SegIds(network[i]) :
        network[i].eawt[j] # NoOutcome

\* C20: in whatever order the pass visits lines and segments, no segment
\* value is computed before every line has its capacity, every @eawt and
\* @capacity_penalty written is the value given by the snapshot of the
\* segment's own line, and the values saved at the end are those values
C20_OrderIndependent ==
    PassStarted =>
        /\ SomeSegmentDone =>
              \A i \in LineIds : network[i].capacity.kind = "value"
        /\ \A i \in LineIds : \A j \in SegIds(network[i]) :
              network[i].eawt[j] # NoOutcome =>
                  /\ network[i].eawt[j] = SnapshotEawt(network[i].line, j)
                  /\ network[i].capacity_penalty[j]
                         = SnapshotPenalty(network[i].line, j)
        /\ ppc = "done" =>
              scenario = [i \in LineIds |->
                  [eawt |-> [j \in SegIds(network[i]) |->
                                 SnapshotEawt(network[i].line, j)],
                   capacity_penalty |-> [j \in SegIds(network[i]) |->
                                 SnapshotPenalty(network[i].line, j)]]]

\* two different lines, the second one's segments computed first and in
\* reverse order, with values that differ from line to line
C20_Witness ==
    /\ ppc = "segments"
    /\ network[1].line # network[2].line
    /\ network[1].eawt[1] = NoOutcome
    /\ network[1].eawt[2] = NoOutcome
    /\ network[2].eawt[1] = NoOutcome
    /\ network[2].eawt[2] # NoOutcome
    /\ network[2].eawt[2] # SnapshotEawt(network[1].line, 2)

(***************************************************************************)
(* C21: blend of the congestion cost against the blend of the crowding     *)
(* cost.                                                                   *)
(***************************************************************************)
\* a call of the congestion cost that computed the seated / standing blend
\* (volume > 0, capacity > 0, mode other than "p")
CongestedBlended ==
    /\ cost_fn = "congested"
    /\ cpc = "done"
    /\ blended_cost.computed

\* the blend the crowding cost computes from the same volume, capacity,
\* weights and line
CrowdedBlendOfSameCall ==
    crowded_cost(cost_args.weights, cost_args.transit_volume,
                 cost_args.capacity, SplitOf(cost_args))

\* C21 as stated: for volume > 0, capacity > 0 and a mode other than "p" the
\* blend computed by the congestion cost equals the blend computed by the
\* crowding cost, both dividing by volume + epsilon.
C21_Original ==
    CongestedBlended =>
        RatEq(blended_cost.value, CrowdedBlendOfSameCall)

\* C21: for volume > 0, capacity > 0 and a mode other than "p" the two cost
\* functions blend the same weighted passengers, but the congestion cost
\* divides them by the volume and the crowding cost by volume + 0.01:
\* congestion blend * volume = crowding blend * (volume + 0.01), so the
\* congestion blend is never below the crowding blend.
C21_SameNumeratorOwnDivisor ==
    CongestedBlended =>
        /\ mode_char(cost_args) # "p"
        /\ cost_args.transit_volume > 0
        /\ cost_args.capacity > 0
        /\ RatEq(RatMul(blended_cost.value, RatInt(cost_args.transit_volume)),
                 RatMul(CrowdedBlendOfSameCall,
                        RatAdd(RatInt(cost_args.transit_volume),
                               Rat(1, 100))))
        /\ RatLeq(CrowdedBlendOfSameCall, blended_cost.value)

\* a congestion call on a crowded line (standing passengers) whose blend is
\* strictly above the crowding blend of the same call
C21_Witness ==
    /\ CongestedBlended
    /\ cost_args \in CrowdedCalls
    /\ RatLess(RatInt(0), split.standing_pax)
    /\ RatLess(CrowdedBlendOfSameCall, blended_cost.value)

(***************************************************************************)
(* Journeys through the drive-access automata (checked under SpecJourney)  *)
(***************************************************************************)
\* the journey is followed through an outbound automaton
OutboundJourney == name \in {"PNR_TRN_WLK", "KNR_TRN_WLK"}

\* the journey is in the prohibit level, which cannot end a journey
Prohibited ==
    /\ jlevel = TemplateN + 2
    /\ returned[jlevel + 1].description = "prohibit"
    /\ ~returned[jlevel + 1].destinations_reachable

\* no rule of the template targets level 0
TemplateTargetsPositive ==
    \A i \in DOMAIN template_file :
        Targets(template_file[i]) \subseteq 1..TemplateN

\* C22 as stated: in PNR_TRN_WLK and KNR_TRN_WLK a journey from level 0 that
\* took w or e before its first transit mode, or D or the p (k) mode after a
\* transit mode, is in the prohibit level and stays there whatever mode
\* follows; the prohibit level is not destinations-reachable.
C22_Original ==
    (OutboundJourney /\ (walked_before_transit \/ drove_after_transit)) =>
        Prohibited

\* C22: in PNR_TRN_WLK and KNR_TRN_WLK a journey from level 0 that took w or
\* e before its first transit mode is in the prohibit level for good; one
\* that took D or the p (k) mode after a transit mode is in the prohibit
\* level for good when no template rule targets level 0.  (A template target
\* 0 is renumbered to level 1, whose p (k) rule loops on level 1.)
C22_OutOfOrderProhibited ==
    OutboundJourney =>
        /\ walked_before_transit => Prohibited
        /\ (drove_after_transit /\ TemplateTargetsPositive) => Prohibited

\* a journey that walked before any transit mode and has since taken a
\* transit mode and a drive mode: it is still in the prohibit level
C22_Witness ==
    /\ OutboundJourney
    /\ TemplateTargetsPositive
    /\ walked_before_transit
    /\ used_transit
    /\ drove_after_transit
    /\ Prohibited

(***************************************************************************)
(* Renumbering and overrides of the fares-enabled variants (checked under  *)
(* SpecJL)                                                                 *)
(***************************************************************************)
\* number of levels the variant inserts in front of the template copies
InsertedInFront ==
    IF name \in {"PNR_TRN_WLK", "KNR_TRN_WLK"} THEN 2 ELSE 1

\* final index (0-based) of the copy of template level i (0-based)
CopyIndex(i) == i + InsertedInFront

\* the amount added to every template target
TargetOffset == IF name \in {"PNR_TRN_WLK", "KNR_TRN_WLK"} THEN 1 ELSE 0

\* a fares-enabled automaton of one of the five class names has been built
BuiltWithFares == Built /\ use_fares /\ name \in ClassNames

\* C23: in every fares-enabled variant the copy of template level i sits at
\* final index i + (levels inserted in front); outbound variants add exactly
\* 1 to every template target and the return variants and WLK_TRN_WLK add 0,
\* so a template rule with target t in 1..N targets the copy of template
\* level t-1, and every appended w / e rule of a copy targets the copy's own
\* final index (each access variant appends a w rule)
C23_RenumberingConsistent ==
    BuiltWithFares =>
        \A i \in 0..(TemplateN - 1) :
            LET tmpl == template_file[i + 1].transition_rules
                copy == returned[CopyIndex(i) + 1].transition_rules
            IN /\ returned[CopyIndex(i) + 1].description = "tmpl"
               /\ Len(copy) >= Len(tmpl)
               /\ \A k \in DOMAIN tmpl :
                     /\ copy[k].mode = tmpl[k].mode
                     /\ copy[k].next_journey_level =
                           tmpl[k].next_journey_level + TargetOffset
                     /\ tmpl[k].next_journey_level \in 1..TemplateN =>
                           copy[k].next_journey_level =
                               CopyIndex(tmpl[k].next_journey_level - 1)
               /\ \A k \in (Len(tmpl) + 1)..Len(copy) :
                     copy[k].mode \in {"w", "e"} =>
                         copy[k].next_journey_level = CopyIndex(i)
               /\ name \in AccessNames =>
                     \E k \in (Len(tmpl) + 1)..Len(copy) : copy[k].mode = "w"

\* a kiss-and-ride automaton built from two template levels: the rule of
\* template level 0 that targets 2 now targets 3, the copy of template level
\* 1, whose appended w rule targets 3 as well
C23_Witness ==
    /\ BuiltWithFares
    /\ name = "KNR_TRN_WLK"
    /\ TemplateN = 2
    /\ template_file[1].transition_rules[2].next_journey_level = 2
    /\ returned[3].transition_rules[2].next_journey_level = 3
    /\ Rule("w", 3) \in { returned[4].transition_rules[k] :
                            k \in DOMAIN returned[4].transition_rules }

\* the final indices of the template-derived levels
CopyIndices == { CopyIndex(i) : i \in 0..(TemplateN - 1) }

\* C24: in each of the four access variants the shared waiting_time and
\* boarding_time overrides are on exactly the N template-derived levels;
\* every other level (inserted access levels, drive home, prohibit) keeps
\* waiting_time, boarding_time and boarding_cost None
C24_OverridesOnCopiesOnly ==
    (BuiltWithFares /\ name \in AccessNames) =>
        /\ Cardinality(CopyIndices) = TemplateN
        /\ \A idx \in 0..(Len(returned) - 1) :
              IF idx \in CopyIndices
              THEN /\ returned[idx + 1].waiting_time = "shared"
                   /\ returned[idx + 1].boarding_time = "shared"
              ELSE /\ returned[idx + 1].description # "tmpl"
                   /\ returned[idx + 1].waiting_time = "None"
                   /\ returned[idx + 1].boarding_time = "None"
                   /\ returned[idx + 1].boarding_cost = "None"

\* a return automaton built from two template levels: levels 1 and 2 carry
\* the overrides, walk access, drive home and prohibit carry none
C24_Witness ==
    /\ BuiltWithFares
    /\ name = "WLK_TRN_PNR"
    /\ TemplateN = 2
    /\ returned[2].waiting_time = "shared"
    /\ returned[3].boarding_time = "shared"
    /\ returned[1].waiting_time = "None"
    /\ returned[4].description = "drive home"
    /\ returned[4].waiting_time = "None"
    /\ returned[5].boarding_cost = "None"

(***************************************************************************)
(* Cumulative alightings through a segment (checked under SpecEawt)        *)
(***************************************************************************)
\* volume[0] - volume[k] + boardings[1] + ... + boardings[k] for the segment
\* at 0-based position k of the line
OffsThruClosedForm(line, k) ==
    line.segments[1].transit_volume - line.segments[k + 1].transit_volume
    + SumSeq([j \in 1..k |-> line.segments[j + 1].transit_boardings])

\* the value calc_extra_wait_time returns when the cumulative alightings of
\* the call's segment are taken from the closed form
EawtWithClosedForm ==
    LET segment == eawt_args.segment
        exit_term == RatMul(EawtWeights.exit_proportion,
                            RatNorm(OffsThruClosedForm(segment.line,
                                                       segment.number),
                                    calc_total_offs(segment.line)))
        others == RatSub(eawt_sum(segment, eawt_args.segment_capacity),
                         exit_proportion_term(segment).value)
    IN RatMul(RatAdd(others, exit_term),
              eawt_factor(segment.line, eawt_args.use_fares).value)

\* C25: calc_offs_thru_segment of the segment at position k sums
\* (previous volume - this volume + this boardings) over the segments at
\* positions 1..k exactly: it is volume[0] - volume[k] + boardings[1..k]
\* (no segment after k enters it), 0 for the first segment, and this is the
\* value that enters the wait time returned
C25_OffsThruSegmentK ==
    EawtCalled =>
        /\ \A k \in 0..(Len(EawtLine.segments) - 1) :
              calc_offs_thru_segment([number |-> k, line |-> EawtLine])
                  = OffsThruClosedForm(EawtLine, k)
        /\ calc_offs_thru_segment([number |-> 0, line |-> EawtLine]) = 0
        /\ epc = "done" => eawt_out = Value(EawtWithClosedForm)

\* a call on the middle segment of a line where a passenger who boarded at
\* the first stop alights at the second, and the last segment has boardings
\* of its own that do not count
C25_Witness ==
    /\ epc = "done"
    /\ eawt_args.segment.number = 1
    /\ EawtLine.segments[1].transit_volume = PaxUnit
    /\ EawtLine.segments[2].transit_volume = 0
    /\ EawtLine.segments[2].transit_boardings = 0
    /\ EawtLine.segments[3].transit_boardings = PaxUnit
    /\ calc_offs_thru_segment(eawt_args.segment) = PaxUnit
    /\ eawt_out = Value(EawtWithClosedForm)

(***************************************************************************)
(* Choice of the assignment variant (checked under SpecRun)                *)
(***************************************************************************)
\* the variant run_transit_assign chooses from its two arguments
ChosenVariant ==
    IF run_use_ccr THEN "ccr"
    ELSE IF cfg_congested THEN "congested"
    ELSE "extended"

\* the positions of run_transit_assign inside each variant
VariantOfPosition ==
    CASE rpc \in {"ccr_engine", "ccr_penalties", "ccr_penalties_run"} -> "ccr"
      [] rpc = "congested_engine" -> "congested"
      [] rpc = "extended_loop" -> "extended"
      [] OTHER -> "none"

\* C26: in every call of run_transit_assign exactly one variant runs for the
\* period: CCR when use_ccr is set, otherwise congested when
\* congested_transit_assignment is set, otherwise extended; the penalty
\* recomputation runs only inside the CCR variant, and a period assigned by
\* the congested or the extended variant has no recomputation
C26_VariantPrecedence ==
    /\ VariantOfPosition # "none" =>
          /\ VariantOfPosition = ChosenVariant
          /\ variant[period] = ChosenVariant
    /\ rpc = "summaries" => variant[period] = ChosenVariant
    /\ \A p \in Periods :
          /\ variant[p] \in {"none", ChosenVariant}
          /\ (rpc \in {"period", "dispatch", "returned"} /\ p < period) =>
                variant[p] = ChosenVariant
          /\ penalised[p] > 0 => variant[p] = "ccr"
          /\ variant[p] \in {"congested", "extended"} => penalised[p] = 0
          /\ variant[p] = "ccr" => penalised[p] <= assigned[p]
    /\ penalty = "running" => variant[period] = "ccr"

\* use_ccr and congested_transit_assignment are both set: the last period
\* was assigned by the CCR variant and its penalties were recomputed
C26_Witness ==
    /\ cfg_use_ccr
    /\ cfg_congested
    /\ rpc = "summaries"
    /\ period = NumPeriods
    /\ \A p \in Periods : variant[p] = "ccr" /\ penalised[p] >= 1

(***************************************************************************)
(* The class loop of the extended assignment (checked under SpecRun)       *)
(***************************************************************************)
\* the assignments of the current iteration for the first n classes
ClassesThisIteration(n) == { <<iteration, c>> : c \in 1..n }

\* C27: in the extended assignment of a period the classes are assigned one
\* at a time in configuration order, the first with add_volumes = False and
\* every later one with add_volumes = True; after the loop the period's
\* volumes are made up of every class of the current iteration and of
\* nothing else
C27_ExtendedVolumes ==
    /\ rpc = "extended_loop" =>
          /\ class_idx \in 0..NumClasses
          /\ add_volumes = (class_idx > 0)
          /\ class_idx > 0 =>
                volumes_from[period] = ClassesThisIteration(class_idx)
    /\ (rpc = "summaries" /\ variant[period] = "extended") =>
          volumes_from[period] = ClassesThisIteration(NumClasses)
    /\ \A p \in Periods :
          (rpc \in {"period", "dispatch", "returned"} /\ p < period
             /\ variant[p] = "extended") =>
                volumes_from[p] = ClassesThisIteration(NumClasses)

\* the second outer iteration has assigned every class of the last period:
\* the volumes hold the flows of this iteration's classes only
C27_Witness ==
    /\ iteration = 1
    /\ rpc = "summaries"
    /\ period = NumPeriods
    /\ variant[period] = "extended"
    /\ NumClasses >= 2
    /\ volumes_from[period] = { <<1, c>> : c \in 1..NumClasses }

(***************************************************************************)
(* Journeys through the return automata (checked under SpecJourney)        *)
(***************************************************************************)
\* the journey is followed through a return automaton
ReturnJourney == name \in {"WLK_TRN_PNR", "WLK_TRN_KNR"}

\* the mode that leads to the drive-home level: p, resp. k
HomeMode == IF name = "WLK_TRN_PNR" THEN "p" ELSE "k"

\* the 0-based indices of the levels in which a journey may end
ReachableLevels ==
    { i \in 0..(Len(returned) - 1) : returned[i + 1].destinations_reachable }

\* the journey may end in the level it is in
Acceptable == jlevel \in ReachableLevels

\* the rules that lead to the drive-home level: the p (k) rule of a
\* template-derived level and the D rule of the drive-home level itself
EnteredByHomeMode ==
    \A i \in 0..(Len(returned) - 1) :
        \A k \in DOMAIN returned[i + 1].transition_rules :
            LET r == returned[i + 1].transition_rules[k]
            IN r.next_journey_level = TemplateN + 1 =>
                   \/ i \in 1..TemplateN /\ r.mode = HomeMode
                   \/ i = TemplateN + 1 /\ r.mode = "D"

\* the rules of the drive-home level: D stays, every other mode is prohibited
DriveHomeRules ==
    \A k \in DOMAIN returned[TemplateN + 2].transition_rules :
        LET r == returned[TemplateN + 2].transition_rules[k]
        IN r.next_journey_level =
               IF r.mode = "D" THEN TemplateN + 1 ELSE TemplateN + 2

\* C28 as stated: in WLK_TRN_PNR and WLK_TRN_KNR only level 0 and level N+1
\* are destinations-reachable, and a journey that has used a transit mode
\* can be accepted only in the drive-home level, entered by the p (k) mode,
\* from which only D keeps it out of the prohibit level
C28_Original ==
    ReturnJourney =>
        /\ ReachableLevels = {0, TemplateN + 1}
        /\ DriveHomeRules
        /\ EnteredByHomeMode
        /\ (used_transit /\ Acceptable) =>
              /\ jlevel = TemplateN + 1
              /\ drove_after_transit

\* C28: in WLK_TRN_PNR and WLK_TRN_KNR only the walk-access level 0 and the
\* drive-home level N+1 are destinations-reachable, the drive-home level is
\* entered only by the p (k) mode or kept by D, and its rules send every mode
\* but D to the prohibit level; when no template rule targets level 0, a
\* journey that has used a transit mode can be accepted only in the
\* drive-home level.  (A template rule with target 0 leads back to the
\* walk-access level, in which the journey may end.)
C28_ReturnAcceptance ==
    ReturnJourney =>
        /\ ReachableLevels = {0, TemplateN + 1}
        /\ DriveHomeRules
        /\ EnteredByHomeMode
        /\ jlevel = TemplateN + 1 =>
              /\ used_transit
              /\ drove_after_transit
        /\ (used_transit /\ Acceptable /\ TemplateTargetsPositive) =>
              jlevel = TemplateN + 1

\* a return journey that rode transit, took the p (k) mode and is driving
\* home
C28_Witness ==
    /\ ReturnJourney
    /\ TemplateTargetsPositive
    /\ TemplateN = 2
    /\ used_transit
    /\ drove_after_transit
    /\ ~walked_before_transit
    /\ jlevel = TemplateN + 1
    /\ Acceptable

(***************************************************************************)
(* run() with a negative controller iteration (checked under SpecRun)      *)
(***************************************************************************)
\* C29 as stated: with a negative iteration run() skips the demand
\* preparation, keeps CCR disabled, raises no error for an unset congested
\* flag and goes on to assign every time period
C29_Original ==
    (iteration < 0 /\ rpc # "call") =>
        /\ ~demand_prepared
        /\ ~run_use_ccr
        /\ rpc # "error"
        /\ rpc = "returned" => \A p \in Periods : assigned[p] >= 1

(***************************************************************************)
(* A class name outside the five variants, with fares (checked under       *)
(* SpecJL)                                                                 *)
(***************************************************************************)
\* C30 as stated: with fares enabled a class name that is none of the five
\* variants ends in an error, nothing is returned and no artifact file is
\* written for the (time period, class)
C30_Original ==
    (use_fares /\ name \notin ClassNames) =>
        /\ jpc # "done"
        /\ returned = << >>
        /\ artifact = NoArtifact

====
